---- MODULE Spec2Model ----
(***************************************************************************)
(* A model of the decision logic of the Omani mental-health assistant:     *)
(*   - the dual-model consensus gate      (dual_model_service.py)          *)
(*   - the keyword crisis detectors       (chatbot.py, ai_service.py)      *)
(*   - the chatbot turn                   (chatbot.py)                     *)
(*   - the WebSocket voice relay          (websocket_service.py)           *)
(*                                                                         *)
(* Text is a sequence of tokens.  In the gate a token is one word or one   *)
(* labelled item of a model reply, [k |-> kind, n |-> number]; the kind    *)
(* says which of the substrings the code searches for occur in the token,  *)
(* and "NL" is a newline.  In the crisis detectors a text is a sequence of *)
(* characters.  Scores are kept in tenths (7.0 is 70), the consensus score *)
(* in hundredths (0.7 is 70).                                              *)
(***************************************************************************)
EXTENDS Integers, Sequences, FiniteSets, TLC

VARIABLES
    \* ---- DualModelValidator (dual_model_service.py)
    gpc,              \* position of validate_response: idle, primary, fallback, validation, done
    openai_client,    \* TRUE when self.openai_client is set
    anthropic_client, \* TRUE when self.anthropic_client is set
    primary_model,    \* self.primary_model
    primary_response, \* the ModelResponse of get_primary_response
    validation_response, \* the ModelResponse of get_validation_response
    gate_result,      \* the DualModelResult returned
    gate_calls,       \* the vendor calls issued in this turn, in order
    gate_raised,      \* whether the primary or the secondary call raised in this turn
    validator_calls,  \* the primary_response arguments of get_validation_response in this turn
    \* ---- the crisis detectors (chatbot.py, ai_service.py)
    det_which,        \* the detector that ran last: none, chatbot, ai
    det_text,         \* the text it was given
    det_result,       \* what it returned
    \* ---- OmaniMentalHealthChatbot (chatbot.py)
    chat_pc,              \* idle, dual, regular, done
    language,             \* self.language
    use_dual_validation,  \* self.use_dual_validation
    therapeutic_mode,     \* self.therapeutic_mode
    dual_model_service,   \* whether self.dual_model_service is set (DUAL_MODEL_AVAILABLE)
    llm,                  \* what _initialize_llm found: langchain, openai, none
    model_name,           \* self.model_name
    user_input,           \* the message of the turn
    crisis_detected,      \* the local of get_response_async
    chat_path,            \* the branches the turn has taken
    chat_result,          \* the dictionary get_response_async returns
    \* ---- VoiceWebSocketServer (websocket_service.py)
    clients,          \* self.clients
    active_sessions,  \* self.active_sessions: a session for each registered connection
    now,              \* time.time(), in whole seconds
    ws_pc,            \* where each connection's handler is: closed, waiting, stt, chat, tts, tchat
    ws_open,          \* whether the client end of each connection is still there
    ws_log,           \* per connection: the message in hand, the frames sent and calls made for it
    ws_start,         \* start_time of the message in hand
    ws_text,          \* user_text of the message in hand
    ws_response,      \* response of the chatbot for the message in hand
    \* ---- the vendors, as the relay's chatbot calls find them
    gpt4o_access,     \* whether the vendor lets the account use the model gpt-4o
    \* ---- SpeechService.speech_to_text (speech_service.py)
    whisper_client,    \* whether SpeechService.openai_client is set
    audio,             \* the audio handed to speech_to_text
    stt_pc,            \* position of speech_to_text: idle, auto, ar, en, done
    stt_calls,         \* the transcription requests issued for this audio, in order
    transcribed_text,  \* the local transcribed_text
    detected_language, \* the local detected_language
    speech_result,     \* the dictionary speech_to_text returns
    \* ---- AIService (ai_service.py)
    conversation_history, \* self.conversation_history
    ai_pc,                \* position of get_response: idle, gpt, claude
    ai_messages,          \* the history entries carried by the latest request to the primary model
    ai_count,             \* the exchanges get_response has recorded since construction
    ai_result,            \* what get_response returned last
    ai_calls,             \* the model calls of the latest get_response, each with its outcome
    \* ---- OmaniMentalHealthBot (mental_health_bot.py)
    bot_pc,             \* position of process_voice_input: idle, stt, ai, tts, done
    bot_calls,          \* the stages invoked in this turn, in order
    bot_result,         \* the dictionary process_voice_input returns
    conversation_count, \* self.conversation_count
    crisis_alerts,      \* self.crisis_alerts
    bot_user_text,      \* user_text, the transcription of the turn
    bot_alerts_before,  \* len(self.crisis_alerts) when the turn began
    \* ---- the speech operations of OmaniVoiceService (voice_service.py) and the
    \*      speech synthesis of SpeechService (speech_service.py)
    speech_config,       \* OmaniVoiceService.speech_config is set
    azure_speech_config, \* SpeechService.azure_speech_config is set
    voice_op,            \* the speech operation that returned last
    voice_input,         \* the argument of that operation
    voice_result         \* what that operation returned, or that it raised

gateVars == <<gpc, openai_client, anthropic_client, primary_model, primary_response,
              validation_response, gate_result, gate_calls, gate_raised,
              validator_calls>>

detVars == <<det_which, det_text, det_result>>

chatVars == <<chat_pc, language, use_dual_validation, therapeutic_mode, dual_model_service,
              llm, model_name, user_input, crisis_detected, chat_path, chat_result>>

wsVars == <<clients, active_sessions, now, ws_pc, ws_open, ws_log, ws_start, ws_text,
            ws_response>>

envVars == <<gpt4o_access>>

speechVars == <<whisper_client, audio, stt_pc, stt_calls, transcribed_text, detected_language,
                speech_result>>

aiVars == <<conversation_history, ai_pc, ai_messages, ai_count, ai_result, ai_calls>>

botVars == <<bot_pc, bot_calls, bot_result, conversation_count, crisis_alerts, bot_user_text,
             bot_alerts_before>>

voiceVars == <<speech_config, azure_speech_config, voice_op, voice_input, voice_result>>

vars == <<gateVars, detVars, chatVars, wsVars, envVars, speechVars, aiVars, botVars,
          voiceVars>>

\* what the actions of one component leave alone
nonGateVars   == <<detVars, chatVars, wsVars, envVars, speechVars, aiVars, botVars, voiceVars>>
nonDetVars    == <<gateVars, chatVars, wsVars, envVars, speechVars, aiVars, botVars, voiceVars>>
nonChatVars   == <<detVars, wsVars, envVars, speechVars, aiVars, botVars, voiceVars>>
nonWsVars     == <<gateVars, detVars, chatVars, envVars, speechVars, aiVars, botVars, voiceVars>>
nonSpeechVars == <<gateVars, detVars, chatVars, wsVars, envVars, aiVars, botVars, voiceVars>>
nonAiVars     == <<gateVars, detVars, chatVars, wsVars, envVars, speechVars, botVars, voiceVars>>
nonBotVars    == <<gateVars, detVars, chatVars, wsVars, envVars, speechVars, aiVars, voiceVars>>
nonVoiceVars  == <<gateVars, detVars, chatVars, wsVars, envVars, speechVars, aiVars, botVars>>

\* what a chatbot call made for a connection leaves alone
nonWsVarsButPrimaryModel ==
    <<gpc, openai_client, anthropic_client, primary_response, validation_response,
      gate_result, gate_calls, gate_raised, validator_calls, detVars, chatVars, envVars, speechVars, aiVars,
      botVars, voiceVars>>

\* ------------------------------------------------------------------------
\* Helpers on sequences
\* ------------------------------------------------------------------------

MinOf(S) == CHOOSE x \in S : \A y \in S : x <= y

Abs(x) == IF x < 0 THEN -x ELSE x

RECURSIVE KeepIdx(_, _, _)
\* the subsequence of s at the indices of K, from index i on
KeepIdx(s, K, i) ==
    IF i > Len(s) THEN <<>>
    ELSE (IF i \in K THEN <<s[i]>> ELSE <<>>) \o KeepIdx(s, K, i + 1)

IsPrefix(p, s) == Len(p) <= Len(s) /\ SubSeq(s, 1, Len(p)) = p

\* ------------------------------------------------------------------------
\* Tokens of model replies
\* ------------------------------------------------------------------------

Tok(k, n) == [k |-> k, n |-> n]
NL == Tok("NL", 0)

\* str.strip(): leading and trailing whitespace (newlines) removed
Strip(s) ==
    LET I == {i \in 1..Len(s) : s[i].k # "NL"}
    IN  IF I = {} THEN <<>>
        ELSE SubSeq(s, MinOf(I), CHOOSE x \in I : \A y \in I : y <= x)

\* `word in content.lower()`: the token kinds whose lower-cased text holds the word
KindsWith(word) ==
    CASE word = "crisis"       -> {"crisis", "SafetyCrisis"}
      [] word = "emergency"    -> {"emergency"}
      [] word = "suicide"      -> {"suicide"}
      [] word = "harm"         -> {"harm"}
      [] word = "professional" -> {"professional"}
      [] word = "therapist"    -> {"therapist"}
      [] word = "counselor"    -> {"counselor"}
      [] word = "caution"      -> {"caution", "SafetyCaution"}
      [] word = "improved"     -> {"improved", "IR"}
      [] word = "error"        -> {"error"}
      [] OTHER                 -> {}

HasWord(content, word) == \E i \in 1..Len(content) : content[i].k \in KindsWith(word)

\* re.search(pattern, content): the index of the first token the pattern matches, 0 if none
FirstMatch(content, kinds) ==
    LET I == {i \in 1..Len(content) : content[i].k \in kinds}
    IN  IF I = {} THEN 0 ELSE MinOf(I)

\* the score patterns are tried in order; the first that matches anywhere gives the score
SearchScore(content, patterns, default) ==
    LET J == {j \in 1..Len(patterns) : FirstMatch(content, patterns[j]) # 0}
    IN  IF J = {} THEN default
        ELSE content[FirstMatch(content, patterns[MinOf(J)])].n

DefaultScore == 70

\* r"Therapeutic Quality:\s*(\d+...)", r"Quality:...", r"Score:..." (IGNORECASE)
extract_quality_score(content) ==
    SearchScore(content,
                <<{"TQ"}, {"TQ", "Q"}, {"S", "OS", "VS"}>>,
                DefaultScore)

\* r"Overall Score:...", r"Validation Score:...", r"Score:..."
extract_validation_score(content) ==
    SearchScore(content,
                <<{"OS"}, {"VS"}, {"S", "OS", "VS"}>>,
                DefaultScore)

\* the word "error" in a reply raises the "error" flag
extract_safety_flags_from_text(content) ==
    (IF \E w \in {"crisis", "emergency", "suicide", "harm"} : HasWord(content, w)
        THEN {"crisis"} ELSE {})
    \cup (IF \E w \in {"professional", "therapist", "counselor"} : HasWord(content, w)
        THEN {"professional"} ELSE {})
    \cup (IF HasWord(content, "caution") THEN {"caution"} ELSE {})
    \cup (IF HasWord(content, "error") THEN {"error"} ELSE {})

extract_safety_flags(content) ==
    (IF \E w \in {"crisis", "emergency", "suicide", "harm"} : HasWord(content, w)
        THEN {"crisis"} ELSE {})
    \cup (IF \E w \in {"professional", "therapist", "counselor"} : HasWord(content, w)
        THEN {"professional"} ELSE {})
    \cup (IF HasWord(content, "caution") THEN {"caution"} ELSE {})

\* one re.sub(marker + ".*$", "", MULTILINE): in every line, the text from the marker
\* to the end of the line is removed
CleanOne(content, marker) ==
    LET gone(i) == \E j \in 1..i :
                      /\ content[j].k \in marker
                      /\ \A m \in j..i : content[m].k # "NL"
    IN  KeepIdx(content, {i \in 1..Len(content) : ~gone(i)}, 1)

clean_response(response) ==
    Strip(CleanOne(CleanOne(CleanOne(CleanOne(response,
          {"VA"}), {"TQ"}), {"SafetySafe", "SafetyCaution", "SafetyCrisis"}), {"CA"}))

\* label + r"\s*(.*?)(?=\n\n|\nVALIDATION|\Z)" with DOTALL | IGNORECASE, then strip()
ExtractByLabel(content, label) ==
    LET i     == FirstMatch(content, {label})
        n     == Len(content)
        rest  == {j \in (i + 1)..n : content[j].k # "NL"}
        start == IF rest = {} THEN n + 1 ELSE MinOf(rest)
        stop(j) == \/ j > n
                   \/ /\ content[j].k = "NL"
                      /\ j + 1 <= n
                      /\ content[j + 1].k \in {"NL", "VA", "VS", "VERR"}
        end   == MinOf({j \in start..(n + 1) : stop(j)})
    IN  Strip(SubSeq(content, start, end - 1))

\* the three labels are tried in order; None is [found |-> FALSE]
extract_improved_response(validation_content) ==
    LET labels == <<"IR", "BR", "REV">>
        J == {j \in 1..3 : FirstMatch(validation_content, {labels[j]}) # 0}
    IN  IF J = {} THEN [found |-> FALSE, text |-> <<>>]
        ELSE [found |-> TRUE, text |-> ExtractByLabel(validation_content, labels[MinOf(J)])]

\* ------------------------------------------------------------------------
\* The consensus analysis
\* ------------------------------------------------------------------------

MinConsensusScore == 70

\* the larger of the two scores instead of the smaller
ConsensusScoreMax(primary_quality, validation_score) ==
    IF primary_quality >= validation_score THEN primary_quality ELSE validation_score

\* min(primary_quality / 10.0, validation_score / 10.0), in hundredths
ConsensusScore(primary_quality, validation_score) ==
    IF primary_quality <= validation_score THEN primary_quality ELSE validation_score

TherapeuticGrade(consensus_score) ==
    IF consensus_score >= 90 THEN "A+"
    ELSE IF consensus_score >= 80 THEN "A"
    ELSE IF consensus_score >= 70 THEN "B+"
    ELSE IF consensus_score >= 60 THEN "B"
    ELSE IF consensus_score >= 50 THEN "C"
    ELSE "F"

\* abs(primary_quality - validation_score * 10) > 3.0, the scores in tenths
ScoresConflict(primary_quality, validation_score) ==
    Abs(primary_quality - validation_score * 10) > 30

\* the consensus threshold tested before the crisis flag
DetermineStatusScoreFirst(all_safety_flags, consensus_score, primary_quality, validation_score) ==
    IF "error" \in all_safety_flags THEN "ERROR"
    ELSE IF consensus_score >= MinConsensusScore THEN "PASSED"
    ELSE IF "crisis" \in all_safety_flags THEN "FAILED"
    ELSE IF ScoresConflict(primary_quality, validation_score) THEN "CONFLICT"
    ELSE "FAILED"

DetermineStatus(all_safety_flags, consensus_score, primary_quality, validation_score) ==
    IF "error" \in all_safety_flags THEN "ERROR"
    ELSE IF "crisis" \in all_safety_flags THEN "FAILED"
    ELSE IF consensus_score >= MinConsensusScore THEN "PASSED"
    ELSE IF ScoresConflict(primary_quality, validation_score) THEN "CONFLICT"
    ELSE "FAILED"

\* the validator's rewrite taken whatever the status
SelectFinalResponseAlwaysImproved(status, primary_content, validation_content) ==
    IF HasWord(validation_content, "improved")
    THEN LET improved == extract_improved_response(validation_content)
         IN  IF improved.found /\ improved.text # <<>> THEN improved.text
             ELSE primary_content
    ELSE primary_content

SelectFinalResponse(status, primary_content, validation_content) ==
    IF status = "PASSED" THEN primary_content
    ELSE IF HasWord(validation_content, "improved")
    THEN LET improved == extract_improved_response(validation_content)
         IN  IF improved.found /\ improved.text # <<>> THEN improved.text
             ELSE primary_content
    ELSE primary_content

analyze_consensus(primary, validation) ==
    LET primary_quality  == primary.therapeutic_quality
        validation_score == validation.confidence_score
        all_safety_flags == primary.safety_flags \cup validation.safety_flags
        consensus_score  == ConsensusScore(primary_quality, validation_score)
        status == DetermineStatus(all_safety_flags, consensus_score,
                                  primary_quality, validation_score)
    IN  [ final_response    |-> clean_response(
                                  SelectFinalResponse(status, primary.content,
                                                      validation.content)),
          status            |-> status,
          consensus_score   |-> consensus_score,
          therapeutic_grade |-> TherapeuticGrade(consensus_score),
          safety_assessment |->
              [ flags  |-> all_safety_flags,
                status |-> IF "crisis" \in all_safety_flags THEN "crisis" ELSE "safe",
                recommendation |-> IF "crisis" \in all_safety_flags
                                   THEN "emergency" ELSE "continue" ] ]

\* the apology of the outer handler of validate_response
FallbackApology == <<Tok("APOLOGY", 0)>>

FallbackResult ==
    [ final_response    |-> FallbackApology,
      status            |-> "ERROR",
      consensus_score   |-> 0,
      therapeutic_grade |-> "F",
      safety_assessment |-> [ flags |-> {}, status |-> "error",
                              recommendation |-> "professional_help" ] ]

\* ------------------------------------------------------------------------
\* What the vendors can answer
\* ------------------------------------------------------------------------

W(n) == Tok("W", n)

\* the scores a reply can carry, in tenths: "Score: 6" is 60, "Score: 8.5" is 85; the
\* regex takes any number, "Score: 15" included
Scores == {10, 30, 50, 60, 70, 85, 90, 150}

PrimaryBodies ==
    { <<W(1)>>,
      <<W(1), NL, NL, W(2)>>,
      <<W(1), Tok("emergency", 0), Tok("therapist", 0)>> }

PrimaryTails ==
    {<<>>}
    \cup { <<NL, Tok("TQ", s)>> : s \in Scores }
    \cup { <<NL, NL, Tok("VA", 0), NL, Tok("TQ", s), NL, Tok(sl, 0), NL, Tok("CA", 90)>> :
             s \in {60, 90}, sl \in {"SafetySafe", "SafetyCrisis"} }
    \cup { <<NL, Tok("SafetyCaution", 0)>> }
    \cup { <<NL, Tok("S", 30), NL, Tok("Q", 90)>> }

\* the replies of the primary model; one of them speaks of an error
PrimaryReplies ==
    { b \o t : b \in PrimaryBodies, t \in PrimaryTails }
    \cup { <<W(1), Tok("error", 0), NL, Tok("TQ", 90)>> }

ValidationBodies ==
    { <<W(3)>>,
      <<W(3), Tok("crisis", 0)>>,
      <<W(3), Tok("improved", 0)>> }

ImprovedParts ==
    { <<>>,
      <<NL, NL, Tok("IR", 0), W(4), NL, W(5)>>,
      <<NL, NL, Tok("IR", 0), NL, W(4), NL, Tok("TQ", 90)>>,
      <<NL, NL, Tok("IR", 0)>>,
      <<NL, NL, Tok("BR", 0), W(4)>>,
      <<NL, NL, Tok("REV", 0), W(4), Tok("harm", 0)>> }

ValidationTails ==
    {<<>>}
    \cup { <<NL, Tok("OS", s)>> : s \in Scores }
    \cup { <<NL, NL, Tok("VA", 0), NL, Tok("OS", s), NL, Tok("caution", 0)>> : s \in {60, 90} }
    \cup { <<NL, Tok("S", 30), NL, Tok("VS", 90)>> }

ValidationReplies ==
    { b \o i \o t : b \in ValidationBodies, i \in ImprovedParts, t \in ValidationTails }
    \cup { <<W(3), Tok("error", 0), Tok("crisis", 0), NL, Tok("OS", 90)>> }

\* str(e) of the exceptions a vendor call raises
ModelNotFound    == <<Tok("EXC", 1)>>   \* "... model_not_found ..."
NoAccess         == <<Tok("EXC", 2)>>   \* "... does not have access ..."
Timeout          == <<Tok("EXC", 3)>>   \* any other error
NotInitialized   == <<Tok("EXC", 4)>>   \* "OpenAI / Anthropic client not initialized"
NoneContent      == <<Tok("EXC", 5)>>   \* TypeError of re.search on a None content
Exceptions       == {ModelNotFound, NoAccess, Timeout}

\* every error of the first call is taken for a model-access error
IsAccessErrorAlways(msg) == TRUE

\* "model_not_found" in str(model_error) or "does not have access" in str(model_error)
IsAccessError(msg) == msg \in {ModelNotFound, NoAccess}

\* a vendor call as the turn's log keeps it: the model asked and how the call ended
VendorCall(model, o) ==
    [model |-> model, kind |-> o.kind, exception |-> IF o.kind = "raise" THEN o.text ELSE <<>>]

\* a call returns a reply, returns a message without content, or raises
PrimaryOutcomes ==
    [kind : {"ok"}, text : PrimaryReplies]
    \cup [kind : {"none"}, text : {<<>>}]
    \cup [kind : {"raise"}, text : Exceptions]

ValidationOutcomes ==
    [kind : {"ok"}, text : ValidationReplies]
    \cup [kind : {"none"}, text : {<<>>}]
    \cup [kind : {"raise"}, text : Exceptions]

\* ------------------------------------------------------------------------
\* get_primary_response / get_validation_response
\* ------------------------------------------------------------------------

PrimaryOk(content, model) ==
    [ content             |-> content,
      model_name          |-> model,
      therapeutic_quality |-> extract_quality_score(content),
      safety_flags        |-> extract_safety_flags(content) ]

\* the handler of get_primary_response: "Primary model error: {e}"
PrimaryError(msg, model) ==
    [ content             |-> <<Tok("PERR", 0)>> \o msg,
      model_name          |-> model,
      therapeutic_quality |-> 0,
      safety_flags        |-> {"error"} ]

ValidationOk(content) ==
    [ content          |-> content,
      confidence_score |-> extract_validation_score(content),
      safety_flags     |-> extract_safety_flags(content) ]

\* the handler of get_validation_response: "Validation error: {e}"
ValidationError(msg) ==
    [ content          |-> <<Tok("VERR", 0)>> \o msg,
      confidence_score |-> 0,
      safety_flags     |-> {"error"} ]

\* message.content[0].text if message.content else "No validation response"
ValidationOf(o) ==
    IF o.kind = "ok" THEN ValidationOk(o.text)
    ELSE IF o.kind = "none" THEN ValidationOk(<<Tok("NOVAL", 0)>>)
    ELSE ValidationError(o.text)

NoResponse == [content |-> <<>>, model_name |-> "", therapeutic_quality |-> 0,
               safety_flags |-> {}]
NoResult   == [final_response |-> <<>>, status |-> "NONE", consensus_score |-> 0,
               therapeutic_grade |-> "",
               safety_assessment |-> [flags |-> {}, status |-> "", recommendation |-> ""]]

NoValidation == [content |-> <<>>, confidence_score |-> 0, safety_flags |-> {}]

\* ------------------------------------------------------------------------
\* DualModelValidator.validate_response, one action per await
\* ------------------------------------------------------------------------

\* validate_response is entered
ValidateStart ==
    /\ gpc = "idle"
    /\ gpc' = "primary"
    /\ UNCHANGED <<openai_client, anthropic_client, primary_model, primary_response,
                   validation_response, gate_result, gate_calls, gate_raised,
                   validator_calls>>
    /\ UNCHANGED nonGateVars

\* get_primary_response without a client: raise Exception("OpenAI client not initialized")
PrimaryNoClient ==
    /\ gpc = "primary"
    /\ ~openai_client
    /\ primary_response' = PrimaryError(NotInitialized, primary_model)
    /\ gate_raised' = TRUE
    /\ gpc' = "validation"
    /\ UNCHANGED <<openai_client, anthropic_client, primary_model, validation_response,
                   gate_result, gate_calls, validator_calls>>
    /\ UNCHANGED nonGateVars

\* the first chat.completions.create, with self.primary_model
PrimaryCall ==
    /\ gpc = "primary"
    /\ openai_client
    /\ \E o \in PrimaryOutcomes :
         /\ gate_calls' = Append(gate_calls, VendorCall(primary_model, o))
         /\ \/ /\ o.kind = "ok"
               /\ primary_response' = PrimaryOk(o.text, primary_model)
               /\ gpc' = "validation"
               /\ UNCHANGED gate_raised
            \/ /\ o.kind = "none"
               /\ primary_response' = PrimaryError(NoneContent, primary_model)
               /\ gpc' = "validation"
               /\ gate_raised' = TRUE
            \/ /\ o.kind = "raise"
               /\ IsAccessError(o.text)
               /\ gpc' = "fallback"
               /\ UNCHANGED <<primary_response, gate_raised>>
            \/ /\ o.kind = "raise"
               /\ ~IsAccessError(o.text)
               /\ primary_response' = PrimaryError(o.text, primary_model)
               /\ gpc' = "validation"
               /\ gate_raised' = TRUE
    /\ UNCHANGED <<openai_client, anthropic_client, primary_model, validation_response,
                   gate_result, validator_calls>>
    /\ UNCHANGED nonGateVars

\* self.primary_model is set to "gpt-4" before the second request is made
FallbackCallAlwaysSwitching ==
    /\ gpc = "fallback"
    /\ primary_model' = "gpt-4"
    /\ \E o \in PrimaryOutcomes :
         /\ gate_calls' = Append(gate_calls, VendorCall("gpt-4", o))
         /\ \/ /\ o.kind = "ok"
               /\ primary_response' = PrimaryOk(o.text, "gpt-4")
               /\ UNCHANGED gate_raised
            \/ /\ o.kind = "none"
               /\ primary_response' = PrimaryError(NoneContent, "gpt-4")
               /\ gate_raised' = TRUE
            \/ /\ o.kind = "raise"
               /\ primary_response' = PrimaryError(o.text, "gpt-4")
               /\ gate_raised' = TRUE
    /\ gpc' = "validation"
    /\ UNCHANGED <<openai_client, anthropic_client, validation_response, gate_result,
                   validator_calls>>
    /\ UNCHANGED nonGateVars

\* the second chat.completions.create, with "gpt-4"
FallbackCall ==
    /\ gpc = "fallback"
    /\ \E o \in PrimaryOutcomes :
         /\ gate_calls' = Append(gate_calls, VendorCall("gpt-4", o))
         /\ \/ /\ o.kind = "ok"
               /\ primary_model' = "gpt-4"
               /\ primary_response' = PrimaryOk(o.text, "gpt-4")
               /\ UNCHANGED gate_raised
            \/ /\ o.kind = "none"
               /\ primary_model' = "gpt-4"
               /\ primary_response' = PrimaryError(NoneContent, "gpt-4")
               /\ gate_raised' = TRUE
            \/ /\ o.kind = "raise"
               /\ primary_response' = PrimaryError(o.text, primary_model)
               /\ gate_raised' = TRUE
               /\ UNCHANGED primary_model
    /\ gpc' = "validation"
    /\ UNCHANGED <<openai_client, anthropic_client, validation_response, gate_result,
                   validator_calls>>
    /\ UNCHANGED nonGateVars

\* get_validation_response(user_input, primary_response.content) is awaited, then
\* _analyze_consensus and the return
FinishGate(validation, raised) ==
    /\ validator_calls' = Append(validator_calls, primary_response.content)
    /\ validation_response' = validation
    /\ gate_result' = analyze_consensus(primary_response, validation)
    /\ gate_raised' = (gate_raised \/ raised)
    /\ gpc' = "done"

\* get_validation_response without a client
ValidationNoClient ==
    /\ gpc = "validation"
    /\ ~anthropic_client
    /\ FinishGate(ValidationError(NotInitialized), TRUE)
    /\ UNCHANGED <<openai_client, anthropic_client, primary_model, primary_response,
                   gate_calls>>
    /\ UNCHANGED nonGateVars

\* the validator is not consulted about a primary call that failed
ValidationCallUnlessError ==
    /\ gpc = "validation"
    /\ anthropic_client
    /\ IF "error" \in primary_response.safety_flags
       THEN /\ validation_response' = ValidationError(NotInitialized)
            /\ gate_result' = analyze_consensus(primary_response,
                                                ValidationError(NotInitialized))
            /\ gpc' = "done"
            /\ UNCHANGED <<gate_calls, gate_raised, validator_calls>>
       ELSE \E o \in ValidationOutcomes :
                /\ gate_calls' = Append(gate_calls, VendorCall("claude", o))
                /\ FinishGate(ValidationOf(o), o.kind = "raise")
    /\ UNCHANGED <<openai_client, anthropic_client, primary_model, primary_response>>
    /\ UNCHANGED nonGateVars

\* messages.create with self.secondary_model
ValidationCall ==
    /\ gpc = "validation"
    /\ anthropic_client
    /\ \E o \in ValidationOutcomes :
         /\ gate_calls' = Append(gate_calls, VendorCall("claude", o))
         /\ FinishGate(ValidationOf(o), o.kind = "raise")
    /\ UNCHANGED <<openai_client, anthropic_client, primary_model, primary_response>>
    /\ UNCHANGED nonGateVars

\* the DualModelResult is handed to the caller; the locals of the turn are gone
GateReturn ==
    /\ gpc = "done"
    /\ gpc' = "idle"
    /\ primary_response' = NoResponse
    /\ validation_response' = NoValidation
    /\ gate_result' = NoResult
    /\ gate_calls' = <<>>
    /\ gate_raised' = FALSE
    /\ validator_calls' = <<>>
    /\ UNCHANGED <<openai_client, anthropic_client, primary_model>>
    /\ UNCHANGED nonGateVars

NextGate ==
    \/ ValidateStart
    \/ PrimaryNoClient
    \/ PrimaryCall
    \/ FallbackCall
    \/ ValidationNoClient
    \/ ValidationCall
    \/ GateReturn


\* ------------------------------------------------------------------------
\* The crisis detectors
\* ------------------------------------------------------------------------

UpperCase == <<"A", "B", "C", "D", "E", "F", "G", "H", "I", "J", "K", "L", "M",
               "N", "O", "P", "Q", "R", "S", "T", "U", "V", "W", "X", "Y", "Z">>
LowerCase == <<"a", "b", "c", "d", "e", "f", "g", "h", "i", "j", "k", "l", "m",
               "n", "o", "p", "q", "r", "s", "t", "u", "v", "w", "x", "y", "z">>

\* str.lower(), one character: a capital becomes small, anything else stays
LowerChar(c) ==
    IF \E i \in 1..26 : UpperCase[i] = c
    THEN LowerCase[CHOOSE i \in 1..26 : UpperCase[i] = c]
    ELSE c

Lower(text) == [i \in 1..Len(text) |-> LowerChar(text[i])]

\* `a in b` with the operands exchanged
ContainsReversed(text, keyword) ==
    \E i \in 1..(Len(keyword) - Len(text) + 1) :
        SubSeq(keyword, i, i + Len(text) - 1) = text

\* `keyword in text`
Contains(text, keyword) ==
    \E i \in 1..(Len(text) - Len(keyword) + 1) :
        SubSeq(text, i, i + Len(keyword) - 1) = keyword

\* self.crisis_keywords of OmaniMentalHealthChatbot; an Arabic letter is named by its code point
crisis_keywords ==
    << <<"s", "u", "i", "c", "i", "d", "e">>,
       <<"k", "i", "l", "l", " ", "m", "y", "s", "e", "l", "f">>,
       <<"e", "n", "d", " ", "m", "y", " ", "l", "i", "f", "e">>,
       <<"h", "u", "r", "t", " ", "m", "y", "s", "e", "l", "f">>,
       <<"s", "e", "l", "f", " ", "h", "a", "r", "m">>,
       <<"c", "u", "t", "t", "i", "n", "g">>,
       <<"o", "v", "e", "r", "d", "o", "s", "e">>,
       <<"j", "u", "m", "p">>,
       <<"h", "a", "n", "g", "i", "n", "g">>,
       <<"c", "a", "n", "'", "t", " ", "g", "o", " ", "o", "n">>,
       <<"h", "o", "p", "e", "l", "e", "s", "s">>,
       <<"w", "o", "r", "t", "h", "l", "e", "s", "s">>,
       <<"b", "e", "t", "t", "e", "r", " ", "o", "f", "f", " ", "d", "e", "a", "d">>,
       <<"U0627", "U0646", "U062A", "U062D", "U0627", "U0631">>,
       <<"U0623", "U0642", "U062A", "U0644", " ", "U0646", "U0641", "U0633", "U064A">>,
       <<"U0623", "U0624", "U0630", "U064A", " ", "U0646", "U0641", "U0633", "U064A">> >>

\* config.CRISIS_KEYWORDS_AR
CRISIS_KEYWORDS_AR ==
    << <<"U0627", "U0646", "U062A", "U062D", "U0627", "U0631">>,
       <<"U0627", "U0642", "U062A", "U0644", " ", "U0646", "U0641", "U0633", "U064A">>,
       <<"U0623", "U0631", "U064A", "U062F", " ", "U0623", "U0646", " ", "U0623", "U0645", "U0648", "U062A">>,
       <<"U0644", "U0627", " ", "U0623", "U0633", "U062A", "U0637", "U064A", "U0639", " ", "U0623", "U0643", "U062B", "U0631">>,
       <<"U0633", "U0623", "U0646", "U0647", "U064A", " ", "U062D", "U064A", "U0627", "U062A", "U064A">>,
       <<"U0623", "U0641", "U0643", "U0631", " ", "U0641", "U064A", " ", "U0627", "U0644", "U0645", "U0648", "U062A">>,
       <<"U0623", "U0631", "U064A", "U062F", " ", "U0623", "U0646", " ", "U0623", "U062E", "U062A", "U0641", "U064A">> >>

\* config.CRISIS_KEYWORDS_EN
CRISIS_KEYWORDS_EN ==
    << <<"s", "u", "i", "c", "i", "d", "e">>,
       <<"k", "i", "l", "l", " ", "m", "y", "s", "e", "l", "f">>,
       <<"w", "a", "n", "t", " ", "t", "o", " ", "d", "i", "e">>,
       <<"e", "n", "d", " ", "m", "y", " ", "l", "i", "f", "e">>,
       <<"t", "h", "i", "n", "k", "i", "n", "g", " ", "a", "b", "o", "u", "t", " ", "d", "e", "a", "t", "h">>,
       <<"w", "a", "n", "t", " ", "t", "o", " ", "d", "i", "s", "a", "p", "p", "e", "a", "r">>,
       <<"c", "a", "n", "'", "t", " ", "g", "o", " ", "o", "n">> >>

\* config.CRISIS_KEYWORDS_MIXED
CRISIS_KEYWORDS_MIXED ==
    << <<"I", " ", "w", "a", "n", "t", " ", "t", "o", " ", "U0627", "U0646", "U062A", "U062D", "U0627", "U0631">>,
       <<"U0623", "U0631", "U064A", "U062F", " ", "U0623", "U0646", " ", "U0623", "U0645", "U0648", "U062A", " ", "r", "e", "a", "l", "l", "y">>,
       <<"U0644", "U0627", " ", "U0623", "U0633", "U062A", "U0637", "U064A", "U0639", " ", "a", "n", "y", "m", "o", "r", "e">>,
       <<"U0633", "U0623", "U0646", "U0647", "U064A", " ", "m", "y", " ", "l", "i", "f", "e">>,
       <<"t", "h", "i", "n", "k", "i", "n", "g", " ", "a", "b", "o", "u", "t", " ", "U0627", "U0644", "U0645", "U0648", "U062A">>,
       <<"c", "a", "n", "'", "t", " ", "g", "o", " ", "o", "n", " ", "U0628", "U0639", "U062F", " ", "U0627", "U0644", "U064A", "U0648", "U0645">>,
       <<"w", "a", "n", "t", " ", "t", "o", " ", "d", "i", "e", " ", "U0648", "U0627", "U0644", "U0644", "U0647">>,
       <<"d", "e", "p", "r", "e", "s", "s", "i", "o", "n", " ", "U0634", "U062F", "U064A", "U062F">>,
       <<"f", "e", "e", "l", "i", "n", "g", " ", "h", "o", "p", "e", "l", "e", "s", "s", " ", "U064A", "U0627", " ", "U0631", "U0628">> >>

\* the message is not lower-cased
detect_crisis_as_typed(message) ==
    \E k \in 1..Len(crisis_keywords) : Contains(message, crisis_keywords[k])

\* OmaniMentalHealthChatbot.detect_crisis
detect_crisis(message) ==
    LET message_lower == Lower(message)
    IN  \E k \in 1..Len(crisis_keywords) : Contains(message_lower, crisis_keywords[k])

\* AIService._detect_crisis
ai_detect_crisis(text) ==
    LET text_lower == Lower(text)
    IN  \/ \E k \in 1..Len(CRISIS_KEYWORDS_AR) : Contains(text_lower, CRISIS_KEYWORDS_AR[k])
        \/ \E k \in 1..Len(CRISIS_KEYWORDS_EN) : Contains(text_lower, CRISIS_KEYWORDS_EN[k])
        \/ \E k \in 1..Len(CRISIS_KEYWORDS_MIXED) :
               Contains(text_lower, Lower(CRISIS_KEYWORDS_MIXED[k]))

\* ---- the texts the detectors are run on

Range(s) == {s[i] : i \in 1..Len(s)}

AllKeywords == Range(crisis_keywords) \cup Range(CRISIS_KEYWORDS_AR)
               \cup Range(CRISIS_KEYWORDS_EN) \cup Range(CRISIS_KEYWORDS_MIXED)

UpperChar(c) ==
    IF \E i \in 1..26 : LowerCase[i] = c
    THEN UpperCase[CHOOSE i \in 1..26 : LowerCase[i] = c]
    ELSE c

Shout(text)      == [i \in 1..Len(text) |-> UpperChar(text[i])]
Capitalize(text) == [i \in 1..Len(text) |-> IF i = 1 THEN UpperChar(text[i]) ELSE text[i]]
DropLast(text)   == SubSeq(text, 1, Len(text) - 1)

\* the longest run of padding put before and after a phrase
MaxPad == 1

Pads == { [i \in 1..n |-> c] : n \in 0..MaxPad, c \in {" ", "x"} }

Benign == { <<"i", " ", "h", "a", "d", " ", "a", " ", "g", "r", "e", "a", "t", " ",
              "d", "a", "y">>,
            <<"d", "i", "e">>,
            <<>> }

\* a keyword as configured, shouted, capitalised, or cut short; or a harmless phrase
Phrases ==
    UNION { {kw, Shout(kw), Capitalize(kw), DropLast(kw)} : kw \in AllKeywords }
    \cup Benign

Texts == { a \o p \o b : a \in Pads, p \in Phrases, b \in Pads }

\* chatbot.detect_crisis(message)
DetectCrisisChatbot ==
    /\ det_which = "none"
    /\ det_which' = "chatbot"
    /\ det_result' = detect_crisis(det_text)
    /\ UNCHANGED det_text
    /\ UNCHANGED nonDetVars

\* ai_service._detect_crisis(text)
DetectCrisisAI ==
    /\ det_which = "none"
    /\ det_which' = "ai"
    /\ det_result' = ai_detect_crisis(det_text)
    /\ UNCHANGED det_text
    /\ UNCHANGED nonDetVars

NextDet ==
    \/ DetectCrisisChatbot
    \/ DetectCrisisAI

\* ------------------------------------------------------------------------
\* validate_response as the chatbot sees it: what one call can return
\* ------------------------------------------------------------------------

Models == {"gpt-4o", "gpt-4"}

\* the retry against "gpt-4" after an access error of the first call
primary_after_fallback(model, f) ==
    IF f.kind = "ok" THEN [response |-> PrimaryOk(f.text, "gpt-4"), model |-> "gpt-4"]
    ELSE IF f.kind = "none" THEN [response |-> PrimaryError(NoneContent, "gpt-4"), model |-> "gpt-4"]
    ELSE [response |-> PrimaryError(f.text, model), model |-> model]

\* get_primary_response: the ModelResponse and self.primary_model after it
get_primary_response(client, model) ==
    IF ~client
    THEN { [response |-> PrimaryError(NotInitialized, model), model |-> model] }
    ELSE UNION { IF o.kind = "ok"
                 THEN { [response |-> PrimaryOk(o.text, model), model |-> model] }
                 ELSE IF o.kind = "none"
                 THEN { [response |-> PrimaryError(NoneContent, model), model |-> model] }
                 ELSE IF ~IsAccessError(o.text)
                 THEN { [response |-> PrimaryError(o.text, model), model |-> model] }
                 ELSE { primary_after_fallback(model, f) : f \in PrimaryOutcomes }
               : o \in PrimaryOutcomes }

get_validation_response(client) ==
    IF ~client
    THEN { ValidationError(NotInitialized) }
    ELSE { ValidationOf(o) : o \in ValidationOutcomes }

\* validate_response: the DualModelResult and self.primary_model after it
validate_response(openai, anthropic, model) ==
    { [result |-> analyze_consensus(p.response, v), model |-> p.model] :
        p \in get_primary_response(openai, model),
        v \in get_validation_response(anthropic) }

\* validate_therapeutic_response, by the state of the service it is called on
validate_therapeutic_response ==
    [openai \in BOOLEAN, anthropic \in BOOLEAN, model \in Models |->
        validate_response(openai, anthropic, model)]

\* ------------------------------------------------------------------------
\* OmaniMentalHealthChatbot
\* ------------------------------------------------------------------------

Languages == {"English", "Arabic", "Both"}

\* get_crisis_response: two fixed texts, each with the emergency numbers
CrisisTextArabic  == <<Tok("CONCERN_AR", 0), NL, NL, Tok("Emergency", 9999), NL,
                       Tok("Helpline", 80002020)>>
CrisisTextEnglish == <<Tok("CONCERN_EN", 0), NL, NL, Tok("Emergency", 9999), NL,
                       Tok("Helpline", 80002020)>>

get_crisis_response(lang) ==
    IF lang = "Arabic" THEN CrisisTextArabic ELSE CrisisTextEnglish

\* Python's None where a text was expected
PyNone == <<Tok("PyNone", 0)>>

\* {x} in an f-string
Format(x) == IF x = PyNone THEN <<Tok("None", 0)>> ELSE x

Separator == <<NL, NL, Tok("---", 0), NL, NL>>

\* the crisis response is left out
CombinedResponseBare(crisis_response, text) == Format(text)

\* f"{crisis_response}\n\n---\n\n{text}"
CombinedResponse(crisis_response, text) ==
    crisis_response \o Separator \o Format(text)

\* "safety_info" of the crisis branches
CrisisSafetyInfo ==
    [ emergency_number |-> "9999",
      crisis_helplines |-> <<"Sultan Qaboos University Hospital: 24141414",
                             "Royal Hospital: 24599000">>,
      message          |-> "Emergency support available 24/7" ]

EmptyDict == <<>>

\* _get_fallback_response(error)
NoService == <<Tok("EXC", 6)>>    \* "No AI service initialized"
get_fallback_response(lang, error) ==
    IF lang = "Arabic" THEN <<Tok("FALLBACK_AR", 0)>>
    ELSE <<Tok("FALLBACK_EN", 0)>> \o error

\* what the chat model answers
ChatReplies == { <<W(6)>>, <<W(6), NL, W(7)>>, <<>> }

ChatOutcomes ==
    [kind : {"ok"}, text : ChatReplies]
    \cup [kind : {"none"}, text : {<<>>}]
    \cup [kind : {"raise"}, text : Exceptions]

\* the retry against "gpt-3.5-turbo" after an access error of the first call
regular_after_fallback(lang, model, f) ==
    IF f.kind = "ok" THEN [text |-> f.text, model |-> "gpt-3.5-turbo"]
    ELSE IF f.kind = "none" THEN [text |-> PyNone, model |-> "gpt-3.5-turbo"]
    ELSE [text |-> get_fallback_response(lang, f.text), model |-> model]

\* _get_regular_response: the text it returns and self.model_name after it
get_regular_response(kind, lang, model) ==
    IF kind = "langchain"
    THEN { [text  |-> IF o.kind = "ok" THEN o.text
                      ELSE IF o.kind = "none" THEN PyNone
                      ELSE get_fallback_response(lang, o.text),
            model |-> model] : o \in ChatOutcomes }
    ELSE IF kind = "openai"
    THEN UNION { IF o.kind = "ok" THEN { [text |-> o.text, model |-> model] }
                 ELSE IF o.kind = "none" THEN { [text |-> PyNone, model |-> model] }
                 ELSE IF ~IsAccessError(o.text)
                 THEN { [text |-> get_fallback_response(lang, o.text), model |-> model] }
                 ELSE { regular_after_fallback(lang, model, f) : f \in ChatOutcomes }
               : o \in ChatOutcomes }
    ELSE { [text |-> get_fallback_response(lang, NoService), model |-> model] }

GreatDay == <<"i", " ", "h", "a", "d", " ", "a", " ", "g", "r", "e", "a", "t", " ",
              "d", "a", "y">>

\* the messages of a turn: two that name a crisis, two that do not
ChatInputs ==
    { Capitalize(crisis_keywords[2]), crisis_keywords[14], GreatDay, DropLast(crisis_keywords[1]) }

NoChatResult ==
    [ response |-> <<>>, crisis_detected |-> FALSE, safety_info |-> EmptyDict,
      dual_model_used |-> FALSE, validation |-> <<>> ]

\* the keys only the dual-validation branches put in the dictionary
ValidationKeys(r) ==
    << [ therapeutic_grade |-> r.therapeutic_grade,
         validation_status |-> r.status,
         consensus_score   |-> r.consensus_score ] >>

\* set_language
SetLanguage ==
    /\ chat_pc = "idle"
    /\ \E l \in Languages : language' = l
    /\ UNCHANGED <<chat_pc, use_dual_validation, therapeutic_mode, dual_model_service, llm,
                   model_name, user_input, crisis_detected, chat_path, chat_result>>
    /\ UNCHANGED <<gateVars, nonChatVars>>

\* enable_dual_validation(enabled): enabled and DUAL_MODEL_AVAILABLE
EnableDualValidation ==
    /\ chat_pc = "idle"
    /\ \E enabled \in BOOLEAN : use_dual_validation' = (enabled /\ dual_model_service)
    /\ UNCHANGED <<chat_pc, language, therapeutic_mode, dual_model_service, llm,
                   model_name, user_input, crisis_detected, chat_path, chat_result>>
    /\ UNCHANGED <<gateVars, nonChatVars>>

\* enable_therapeutic_mode(enabled)
EnableTherapeuticMode ==
    /\ chat_pc = "idle"
    /\ \E enabled \in BOOLEAN : therapeutic_mode' = enabled
    /\ UNCHANGED <<chat_pc, language, use_dual_validation, dual_model_service, llm,
                   model_name, user_input, crisis_detected, chat_path, chat_result>>
    /\ UNCHANGED <<gateVars, nonChatVars>>

\* get_response_async up to its first call: the crisis check and the choice of branch
ChatStart ==
    /\ chat_pc = "idle"
    /\ \E m \in ChatInputs :
         /\ user_input' = m
         /\ crisis_detected' = detect_crisis(m)
         /\ chat_pc' = IF dual_model_service /\ use_dual_validation
                          /\ (detect_crisis(m) \/ therapeutic_mode)
                       THEN "dual" ELSE "regular"
    /\ chat_path' = <<>>
    /\ chat_result' = NoChatResult
    /\ UNCHANGED <<language, use_dual_validation, therapeutic_mode, dual_model_service, llm,
                   model_name>>
    /\ UNCHANGED <<gateVars, nonChatVars>>

\* validate_therapeutic_response returns: the dual-validation return of either branch
ChatDualReturn ==
    /\ chat_pc = "dual"
    /\ \E run \in validate_therapeutic_response[openai_client, anthropic_client, primary_model] :
         /\ primary_model' = run.model
         /\ chat_result' =
              IF crisis_detected
              THEN [ response        |-> CombinedResponse(get_crisis_response(language),
                                                          run.result.final_response),
                     crisis_detected |-> TRUE,
                     safety_info     |-> CrisisSafetyInfo,
                     dual_model_used |-> TRUE,
                     validation      |-> ValidationKeys(run.result) ]
              ELSE [ response        |-> run.result.final_response,
                     crisis_detected |-> FALSE,
                     safety_info     |-> run.result.safety_assessment,
                     dual_model_used |-> TRUE,
                     validation      |-> ValidationKeys(run.result) ]
    /\ chat_path' = Append(chat_path, "dual")
    /\ chat_pc' = "done"
    /\ UNCHANGED <<language, use_dual_validation, therapeutic_mode, dual_model_service, llm,
                   model_name, user_input, crisis_detected>>
    /\ UNCHANGED <<gpc, openai_client, anthropic_client, primary_response,
                   validation_response, gate_result, gate_calls, gate_raised,
                   validator_calls>>
    /\ UNCHANGED nonChatVars

\* validate_therapeutic_response raises: the except branch, on to the regular response
ChatDualRaise ==
    /\ chat_pc = "dual"
    /\ chat_path' = Append(chat_path, "dual_raised")
    /\ chat_pc' = "regular"
    /\ UNCHANGED <<language, use_dual_validation, therapeutic_mode, dual_model_service, llm,
                   model_name, user_input, crisis_detected, chat_result>>
    /\ UNCHANGED <<gateVars, nonChatVars>>

\* _get_regular_response and the return without dual validation
ChatRegular ==
    /\ chat_pc = "regular"
    /\ \E r \in get_regular_response(llm, language, model_name) :
         LET regular_response == r.text
         IN  /\ chat_result' =
                  IF crisis_detected
                  THEN [ response        |-> CombinedResponse(get_crisis_response(language),
                                                              regular_response),
                         crisis_detected |-> TRUE,
                         safety_info     |-> CrisisSafetyInfo,
                         dual_model_used |-> FALSE,
                         validation      |-> <<>> ]
                  ELSE [ response        |-> regular_response,
                         crisis_detected |-> FALSE,
                         safety_info     |-> EmptyDict,
                         dual_model_used |-> FALSE,
                         validation      |-> <<>> ]
             /\ chat_path' = Append(chat_path,
                                    IF \E e \in Exceptions \cup {NoService} :
                                          regular_response = get_fallback_response(language, e)
                                    THEN "fallback" ELSE "regular")
             /\ model_name' = r.model
    /\ chat_pc' = "done"
    /\ UNCHANGED <<language, use_dual_validation, therapeutic_mode, dual_model_service, llm,
                   user_input, crisis_detected>>
    /\ UNCHANGED <<gateVars, nonChatVars>>

\* the dictionary is with the caller
ChatReturn ==
    /\ chat_pc = "done"
    /\ chat_pc' = "idle"
    /\ user_input' = <<>>
    /\ crisis_detected' = FALSE
    /\ chat_path' = <<>>
    /\ chat_result' = NoChatResult
    /\ UNCHANGED <<language, use_dual_validation, therapeutic_mode, dual_model_service, llm,
                   model_name>>
    /\ UNCHANGED <<gateVars, nonChatVars>>

NextChat ==
    \/ SetLanguage
    \/ EnableDualValidation
    \/ EnableTherapeuticMode
    \/ ChatStart
    \/ ChatDualReturn
    \/ ChatDualRaise
    \/ ChatRegular
    \/ ChatReturn

\* ------------------------------------------------------------------------
\* VoiceWebSocketServer
\* ------------------------------------------------------------------------

Conns == {"c1", "c2"}

\* the most messages one session handles
MaxMsgs == 2

Frame(type, detail) == [k |-> "frame", t |-> type, d |-> detail]
Call(stage)         == [k |-> "call", t |-> stage, d |-> ""]
Recv(type, payload) == [k |-> "recv", t |-> type, d |-> payload]
Ret(stage, outcome) == [k |-> "ret", t |-> stage, d |-> outcome]
Raised(exception)   == [k |-> "raised", t |-> exception, d |-> ""]

\* an error is reported in a status frame
ErrorFrameAsStatus(reason) == Frame("processing_status", reason)

\* send_error(websocket, error_message); the detail is the fixed part of the message
ErrorFrame(reason) == Frame("error", reason)

\* send_processing_status(websocket, status, message)
StatusFrame(status) == Frame("processing_status", status)

\* what a client sends: text that is not JSON, JSON that is not an object, and objects by type
Messages ==
    { [kind |-> "invalid_json", arg |-> ""], [kind |-> "not_object", arg |-> ""],
      [kind |-> "ping", arg |-> ""], [kind |-> "unknown", arg |-> ""] }
    \cup [kind : {"voice_input"}, arg : {"missing", "empty", "bad_padding", "audio"}]
    \cup [kind : {"text_input"}, arg : {"missing", "empty", "blank", "plain", "crisis"}]
    \cup [kind : {"config_update"}, arg : {"absent", "en-US"}]

Blank == <<" ">>

\* not text.strip(), for a text of characters
IsBlank(text) == \A i \in 1..Len(text) : text[i] = " "

\* data.get("text", ""), not stripped
TextOfUnstripped(arg) ==
    IF arg = "plain" THEN GreatDay
    ELSE IF arg = "crisis" THEN Capitalize(crisis_keywords[2])
    ELSE IF arg = "blank" THEN Blank
    ELSE <<>>

\* data.get("text", "").strip()
TextOf(arg) ==
    IF arg = "plain" THEN GreatDay
    ELSE IF arg = "crisis" THEN Capitalize(crisis_keywords[2])
    ELSE <<>>

\* the validator's primary_model after a chatbot call made from a worker thread: a crisis
\* text does not go through the validator; without access to gpt-4o the first call fails
\* with a model-access error, and when the fallback call succeeds the field is written
PrimaryModelAfter(text) ==
    IF gpt4o_access \/ detect_crisis(text) THEN {primary_model} ELSE {primary_model, "gpt-4"}

\* what process_speech_input returns
SttOutcomes ==
    { [success |-> FALSE, text |-> <<>>],
      [success |-> TRUE, text |-> Blank],
      [success |-> TRUE, text |-> GreatDay],
      [success |-> TRUE, text |-> Capitalize(crisis_keywords[2])] }

\* what self.chatbot.get_response returns for a text (language "English"), or that it raises
ChatbotOutcomes(text) ==
    { [kind |-> "raise", result |-> NoChatResult] }
    \cup { [kind   |-> "ok",
            result |-> IF detect_crisis(text)
                       THEN [ response        |-> CombinedResponse(get_crisis_response("English"), r),
                              crisis_detected |-> TRUE,
                              safety_info     |-> CrisisSafetyInfo,
                              dual_model_used |-> FALSE,
                              validation      |-> <<>> ]
                       ELSE [ response        |-> r,
                              crisis_detected |-> FALSE,
                              safety_info     |-> EmptyDict,
                              dual_model_used |-> FALSE,
                              validation      |-> <<>> ] ]
           : r \in {<<W(6)>>, PyNone} }

\* what generate_speech_output does with a text: text.strip() raises on None
TtsOutcomes(text) == IF text = PyNone THEN {"raise"} ELSE {"ok", "fail"}

\* register_client up to the welcome message
NewSession(n) ==
    [ session_id    |-> <<now, n>>,
      start_time    |-> now,
      message_count |-> 0,
      total_latency |-> 0,
      language      |-> "ar-OM" ]

\* self.active_sessions[websocket] = ...
WithSession(c, session) ==
    [d \in (DOMAIN active_sessions) \cup {c} |->
        IF d = c THEN session ELSE active_sessions[d]]

\* the session entry is kept when the handler ends
WithoutSessionKept(c) == active_sessions

\* del self.active_sessions[websocket]
WithoutSession(c) ==
    [d \in (DOMAIN active_sessions) \ {c} |-> active_sessions[d]]

\* self.active_sessions[websocket]["total_latency"] += time.time() - start_time
AddLatency(c) ==
    [active_sessions EXCEPT ![c].total_latency = @ + (now - ws_start[c])]

\* the speech-to-text call is made before its status frame is sent
HandledCallFirst(m) ==
    IF m.kind = "invalid_json"
    THEN [log |-> <<ErrorFrame("Invalid JSON format")>>, pc |-> "waiting", counted |-> FALSE]
    ELSE IF m.kind = "not_object"
    THEN [log |-> <<ErrorFrame("Processing error")>>, pc |-> "waiting", counted |-> FALSE]
    ELSE IF m.kind = "voice_input"
    THEN IF m.arg \in {"missing", "empty"}
         THEN [log |-> <<ErrorFrame("No audio data provided")>>, pc |-> "waiting",
               counted |-> TRUE]
         ELSE IF m.arg = "bad_padding"
         THEN [log |-> <<ErrorFrame("Voice processing failed")>>, pc |-> "waiting",
               counted |-> TRUE]
         ELSE [log |-> <<Call("stt"), StatusFrame("transcribing")>>, pc |-> "stt",
               counted |-> TRUE]
    ELSE IF m.kind = "text_input"
    THEN IF TextOf(m.arg) = <<>>
         THEN [log |-> <<ErrorFrame("Empty text input")>>, pc |-> "waiting", counted |-> TRUE]
         ELSE [log |-> <<StatusFrame("thinking"), Call("chatbot")>>, pc |-> "tchat",
               counted |-> TRUE]
    ELSE IF m.kind = "ping"
    THEN [log |-> <<Frame("pong", "")>>, pc |-> "waiting", counted |-> TRUE]
    ELSE IF m.kind = "config_update"
    THEN [log |-> <<Frame("config_updated", "")>>, pc |-> "waiting", counted |-> TRUE]
    ELSE [log |-> <<ErrorFrame("Unknown message type")>>, pc |-> "waiting", counted |-> TRUE]

\* handle_client_messages for one message, up to its first vendor call or its end:
\* the frames sent and calls made, where the handler is then, whether the message counted
Handled(m) ==
    IF m.kind = "invalid_json"
    THEN [log |-> <<ErrorFrame("Invalid JSON format")>>, pc |-> "waiting", counted |-> FALSE]
    ELSE IF m.kind = "not_object"
    THEN [log |-> <<ErrorFrame("Processing error")>>, pc |-> "waiting", counted |-> FALSE]
    ELSE IF m.kind = "voice_input"
    THEN IF m.arg \in {"missing", "empty"}
         THEN [log |-> <<ErrorFrame("No audio data provided")>>, pc |-> "waiting",
               counted |-> TRUE]
         ELSE IF m.arg = "bad_padding"
         THEN [log |-> <<ErrorFrame("Voice processing failed")>>, pc |-> "waiting",
               counted |-> TRUE]
         ELSE [log |-> <<StatusFrame("transcribing"), Call("stt")>>, pc |-> "stt",
               counted |-> TRUE]
    ELSE IF m.kind = "text_input"
    THEN IF TextOf(m.arg) = <<>>
         THEN [log |-> <<ErrorFrame("Empty text input")>>, pc |-> "waiting", counted |-> TRUE]
         ELSE [log |-> <<StatusFrame("thinking"), Call("chatbot")>>, pc |-> "tchat",
               counted |-> TRUE]
    ELSE IF m.kind = "ping"
    THEN [log |-> <<Frame("pong", "")>>, pc |-> "waiting", counted |-> TRUE]
    ELSE IF m.kind = "config_update"
    THEN [log |-> <<Frame("config_updated", "")>>, pc |-> "waiting", counted |-> TRUE]
    ELSE [log |-> <<ErrorFrame("Unknown message type")>>, pc |-> "waiting", counted |-> TRUE]

\* a client connects: register_client up to the wait for the first message
Connect(c) ==
    /\ ws_pc[c] = "closed"
    /\ clients' = clients \cup {c}
    /\ active_sessions' = WithSession(c, NewSession(Cardinality(clients \cup {c})))
    /\ ws_log' = [ws_log EXCEPT ![c] = <<Frame("connection_established", "")>>]
    /\ ws_pc' = [ws_pc EXCEPT ![c] = "waiting"]
    /\ ws_open' = [ws_open EXCEPT ![c] = TRUE]
    /\ UNCHANGED <<now, ws_start, ws_text, ws_response>>
    /\ UNCHANGED nonWsVars

\* the client goes away: from now on a send raises and no message arrives
Disconnect(c) ==
    /\ ws_pc[c] # "closed"
    /\ ws_open[c]
    /\ ws_open' = [ws_open EXCEPT ![c] = FALSE]
    /\ UNCHANGED <<clients, active_sessions, now, ws_pc, ws_log, ws_start, ws_text,
                   ws_response>>
    /\ UNCHANGED nonWsVars

\* the message loop ends: the finally of register_client, unregister_client
HandlerEnds(c) ==
    /\ ws_pc[c] = "waiting"
    /\ ~ws_open[c]
    /\ clients' = clients \ {c}
    /\ active_sessions' = WithoutSession(c)
    /\ ws_pc' = [ws_pc EXCEPT ![c] = "closed"]
    /\ ws_log' = [ws_log EXCEPT ![c] = <<>>]
    /\ UNCHANGED <<now, ws_open, ws_start, ws_text, ws_response>>
    /\ UNCHANGED nonWsVars

\* the next message is taken while the one before is still being handled
ReceiveWhileBusy(c) ==
    /\ ws_pc[c] # "closed"
    /\ ws_open[c]
    /\ active_sessions[c].message_count < MaxMsgs
    /\ \E m \in Messages :
         LET h == Handled(m)
         IN  /\ ws_log' = [ws_log EXCEPT ![c] = <<Recv(m.kind, m.arg)>> \o h.log]
             /\ ws_pc' = [ws_pc EXCEPT ![c] = h.pc]
             /\ ws_start' = [ws_start EXCEPT ![c] = now]
             /\ ws_text' = [ws_text EXCEPT ![c] =
                               IF m.kind = "text_input" /\ h.pc = "tchat"
                               THEN TextOf(m.arg) ELSE <<>>]
             /\ active_sessions' =
                  [active_sessions EXCEPT
                     ![c].message_count = IF h.counted THEN @ + 1 ELSE @,
                     ![c].language = IF m.kind = "config_update" /\ m.arg # "absent"
                                     THEN m.arg ELSE @]
    /\ ws_response' = [ws_response EXCEPT ![c] = NoChatResult]
    /\ UNCHANGED <<clients, now, ws_open>>
    /\ UNCHANGED nonWsVars

\* handle_client_messages takes the next message
Receive(c) ==
    /\ ws_pc[c] = "waiting"
    /\ ws_open[c]
    /\ active_sessions[c].message_count < MaxMsgs
    /\ \E m \in Messages :
         LET h == Handled(m)
         IN  /\ ws_log' = [ws_log EXCEPT ![c] = <<Recv(m.kind, m.arg)>> \o h.log]
             /\ ws_pc' = [ws_pc EXCEPT ![c] = h.pc]
             /\ ws_start' = [ws_start EXCEPT ![c] = now]
             /\ ws_text' = [ws_text EXCEPT ![c] =
                               IF m.kind = "text_input" /\ h.pc = "tchat"
                               THEN TextOf(m.arg) ELSE <<>>]
             /\ active_sessions' =
                  [active_sessions EXCEPT
                     ![c].message_count = IF h.counted THEN @ + 1 ELSE @,
                     ![c].language = IF m.kind = "config_update" /\ m.arg # "absent"
                                     THEN m.arg ELSE @]
    /\ ws_response' = [ws_response EXCEPT ![c] = NoChatResult]
    /\ UNCHANGED <<clients, now, ws_open>>
    /\ UNCHANGED nonWsVars

\* what follows an awaited call: the frames go out and the handler moves on, or the first
\* send raises ConnectionClosed, every error frame after it raises too, and the handler ends
\* in the finally of register_client
Proceed(c, ret, sent, pc, sessions, text, response) ==
    IF ws_open[c]
    THEN /\ ws_log' = [ws_log EXCEPT ![c] = @ \o <<ret>> \o sent]
         /\ ws_pc' = [ws_pc EXCEPT ![c] = pc]
         /\ active_sessions' = sessions
         /\ ws_text' = [ws_text EXCEPT ![c] = text]
         /\ ws_response' = [ws_response EXCEPT ![c] = response]
         /\ UNCHANGED clients
    ELSE /\ ws_log' = [ws_log EXCEPT ![c] = @ \o <<ret, Raised("ConnectionClosed")>>]
         /\ ws_pc' = [ws_pc EXCEPT ![c] = "closed"]
         /\ clients' = clients \ {c}
         /\ active_sessions' = WithoutSession(c)
         /\ ws_text' = [ws_text EXCEPT ![c] = <<>>]
         /\ ws_response' = [ws_response EXCEPT ![c] = NoChatResult]

\* a failed speech-to-text call is made again
SttDoneRetrying(c) ==
    /\ ws_pc[c] = "stt"
    /\ \E stt_result \in SttOutcomes :
         IF ~stt_result.success
         THEN Proceed(c, Ret("stt", "fail"), <<Call("stt")>>, "stt", active_sessions, <<>>, NoChatResult)
         ELSE IF IsBlank(stt_result.text)
         THEN Proceed(c, Ret("stt", "blank"), <<ErrorFrame("No speech detected")>>, "waiting", active_sessions, <<>>, NoChatResult)
         ELSE Proceed(c, Ret("stt", "ok"), <<Frame("transcription", ""), StatusFrame("thinking"), Call("chatbot")>>, "chat", active_sessions, stt_result.text, NoChatResult)
    /\ UNCHANGED <<now, ws_open, ws_start>>
    /\ UNCHANGED nonWsVars

\* handle_voice_input after process_speech_input
SttDone(c) ==
    /\ ws_pc[c] = "stt"
    /\ \E stt_result \in SttOutcomes :
         IF ~stt_result.success
         THEN Proceed(c, Ret("stt", "fail"), <<ErrorFrame("Speech recognition failed")>>, "waiting", active_sessions, <<>>, NoChatResult)
         ELSE IF IsBlank(stt_result.text)
         THEN Proceed(c, Ret("stt", "blank"), <<ErrorFrame("No speech detected")>>, "waiting", active_sessions, <<>>, NoChatResult)
         ELSE Proceed(c, Ret("stt", "ok"), <<Frame("transcription", ""), StatusFrame("thinking"), Call("chatbot")>>, "chat", active_sessions, stt_result.text, NoChatResult)
    /\ UNCHANGED <<now, ws_open, ws_start>>
    /\ UNCHANGED nonWsVars

\* handle_voice_input after asyncio.to_thread(self.chatbot.get_response, ...)
ChatDone(c) ==
    /\ ws_pc[c] = "chat"
    /\ \E o \in ChatbotOutcomes(ws_text[c]) :
         IF o.kind = "raise"
         THEN Proceed(c, Ret("chatbot", "raise"), <<ErrorFrame("Voice processing failed")>>, "waiting", active_sessions, <<>>, NoChatResult)
         ELSE Proceed(c, Ret("chatbot", "ok"), <<StatusFrame("synthesizing"), Call("tts")>>, "tts", active_sessions, ws_text[c], o.result)
    /\ UNCHANGED <<now, ws_open, ws_start>>
    /\ primary_model' \in PrimaryModelAfter(ws_text[c])
    /\ UNCHANGED nonWsVarsButPrimaryModel

\* handle_voice_input after generate_speech_output
TtsDone(c) ==
    /\ ws_pc[c] = "tts"
    /\ \E tts \in TtsOutcomes(ws_response[c].response) :
         IF tts = "raise"
         THEN Proceed(c, Ret("tts", "raise"), <<ErrorFrame("Voice processing failed")>>, "waiting", active_sessions, <<>>, NoChatResult)
         ELSE IF tts = "fail"
         THEN Proceed(c, Ret("tts", "fail"), <<Frame("text_response", "fallback_mode")>>, "waiting", AddLatency(c), <<>>, NoChatResult)
         ELSE Proceed(c, Ret("tts", "ok"), <<Frame("voice_response", "")>>, "waiting", AddLatency(c), <<>>, NoChatResult)
    /\ UNCHANGED <<now, ws_open, ws_start>>
    /\ UNCHANGED nonWsVars

\* handle_text_input after asyncio.to_thread(self.chatbot.get_response, ...)
TextChatDone(c) ==
    /\ ws_pc[c] = "tchat"
    /\ \E o \in ChatbotOutcomes(ws_text[c]) :
         IF o.kind = "raise"
         THEN Proceed(c, Ret("chatbot", "raise"), <<ErrorFrame("Text processing failed")>>, "waiting", active_sessions, <<>>, NoChatResult)
         ELSE Proceed(c, Ret("chatbot", "ok"), <<Frame("text_response", "fallback_mode")>>, "waiting", AddLatency(c), <<>>, NoChatResult)
    /\ UNCHANGED <<now, ws_open, ws_start>>
    /\ primary_model' \in PrimaryModelAfter(ws_text[c])
    /\ UNCHANGED nonWsVarsButPrimaryModel

NextWS ==
    \/ \E c \in Conns : Connect(c)
    \/ \E c \in Conns : Disconnect(c)
    \/ \E c \in Conns : HandlerEnds(c)
    \/ \E c \in Conns : Receive(c)
    \/ \E c \in Conns : SttDone(c)
    \/ \E c \in Conns : ChatDone(c)
    \/ \E c \in Conns : TtsDone(c)
    \/ \E c \in Conns : TextChatDone(c)

\* ------------------------------------------------------------------------
\* SpeechService.speech_to_text
\* ------------------------------------------------------------------------

\* duration_seconds < 0.5, in tenths of a second
MinDuration == 5

\* avg_volume < 0.001, in ten-thousandths
VolumeFloor == 10

\* audio by what the analysis would find in it, and whether soundfile can read it
Audios == [readable : BOOLEAN, duration : {4, 5, 20}, volume : {9, 10}]

NoAudio == [readable |-> TRUE, duration |-> 20, volume |-> 10]

\* str.strip() for a text of characters
StripChars(text) ==
    LET kept == {i \in 1..Len(text) : text[i] # " "}
    IN  IF kept = {} THEN <<>>
        ELSE SubSeq(text, CHOOSE i \in kept : \A j \in kept : i <= j,
                          CHOOSE i \in kept : \A j \in kept : j <= i)

\* what the vendor hears in the audio
Heard == { <<>>, <<" ">>, <<"a">>, <<"U", "m">>, <<".">>, <<"h", "i", " ">> }

\* transcript.language of the auto-detect attempt
HeardLanguages == { <<"a", "r">>, <<"E", "N">>, <<"f", "r">> }

expected_languages ==
    { <<"a", "r">>, <<"e", "n">>, <<"a", "r", "a", "b", "i", "c">>,
      <<"e", "n", "g", "l", "i", "s", "h">>,
      <<"a", "u", "t", "o", "-", "d", "e", "t", "e", "c", "t", "e", "d">>,
      <<"u", "n", "k", "n", "o", "w", "n">> }

\* the Whisper artifacts the auto-detect attempt rejects
noise_tokens ==
    { <<"u", "h">>, <<"u", "m">>, <<"a", "h">>, <<"m", "m">>, <<"h", "m">>,
      <<".">>, <<"!">>, <<"?">>, <<" ">> }

\* a transcription request returns a transcript or raises
Transcripts == [kind : {"ok"}, text : Heard] \cup {[kind |-> "raise", text |-> <<>>]}

SttFailure(error) == [success |-> FALSE, text |-> <<>>, language |-> <<>>, error |-> error]

NoSttResult == SttFailure("")

\* the text the auto-detect attempt keeps of a transcript in a language
AutoDetectText(text, lang) ==
    IF Lower(lang) \notin expected_languages THEN <<>>
    ELSE IF StripChars(text) = <<>> THEN <<>>
    ELSE IF Len(StripChars(StripChars(text))) < 2 THEN <<>>
    ELSE IF Lower(StripChars(StripChars(text))) \in noise_tokens THEN <<>>
    ELSE StripChars(text)

\* what follows an attempt: the next attempt when the text is empty, the final check and the
\* result otherwise
AfterAttempt(text, lang, next) ==
    /\ transcribed_text' = text
    /\ detected_language' = lang
    /\ IF text = <<>> /\ next # "done"
       THEN stt_pc' = next /\ UNCHANGED speech_result
       ELSE /\ stt_pc' = "done"
            /\ speech_result' = IF text = <<>> THEN SttFailure("No speech detected in any language")
                             ELSE [success |-> TRUE, text |-> text, language |-> lang,
                                   error |-> ""]

\* the volume of the audio is not looked at
SpeechToTextAnyVolume ==
    /\ stt_pc = "idle"
    /\ IF ~whisper_client
       THEN stt_pc' = "done" /\ speech_result' = SttFailure("OpenAI Whisper API not available")
       ELSE IF audio.readable /\ audio.duration < MinDuration
       THEN stt_pc' = "done" /\ speech_result' = SttFailure("Audio too short")
       ELSE stt_pc' = "auto" /\ UNCHANGED speech_result
    /\ UNCHANGED <<whisper_client, audio, stt_calls, transcribed_text, detected_language>>
    /\ UNCHANGED nonSpeechVars

\* speech_to_text up to the first transcription request: the client check and the analysis
\* of the audio, which is skipped when soundfile cannot read it
SpeechToText ==
    /\ stt_pc = "idle"
    /\ IF ~whisper_client
       THEN stt_pc' = "done" /\ speech_result' = SttFailure("OpenAI Whisper API not available")
       ELSE IF audio.readable /\ audio.duration < MinDuration
       THEN stt_pc' = "done" /\ speech_result' = SttFailure("Audio too short")
       ELSE IF audio.readable /\ audio.volume < VolumeFloor
       THEN stt_pc' = "done" /\ speech_result' = SttFailure("Audio too quiet")
       ELSE stt_pc' = "auto" /\ UNCHANGED speech_result
    /\ UNCHANGED <<whisper_client, audio, stt_calls, transcribed_text, detected_language>>
    /\ UNCHANGED nonSpeechVars

\* the first attempt: no language parameter, the language the vendor detected is filtered
AutoDetect ==
    /\ stt_pc = "auto"
    /\ \E t \in Transcripts : \E lang \in HeardLanguages :
         /\ stt_calls' = Append(stt_calls, [language |-> "auto", heard |-> t])
         /\ IF t.kind = "raise"
            THEN AfterAttempt(<<>>, <<"u", "n", "k", "n", "o", "w", "n">>, "ar")
            ELSE AfterAttempt(AutoDetectText(t.text, lang), lang, "ar")
    /\ UNCHANGED <<whisper_client, audio>>
    /\ UNCHANGED nonSpeechVars

\* the second attempt: language="ar"
ArabicAttempt ==
    /\ stt_pc = "ar"
    /\ \E t \in Transcripts :
         /\ stt_calls' = Append(stt_calls, [language |-> "ar", heard |-> t])
         /\ IF t.kind = "raise"
            THEN AfterAttempt(<<>>, detected_language, "en")
            ELSE AfterAttempt(StripChars(t.text), <<"a", "r">>, "en")
    /\ UNCHANGED <<whisper_client, audio>>
    /\ UNCHANGED nonSpeechVars

\* the third attempt: language="en"
EnglishAttempt ==
    /\ stt_pc = "en"
    /\ \E t \in Transcripts :
         /\ stt_calls' = Append(stt_calls, [language |-> "en", heard |-> t])
         /\ IF t.kind = "raise"
            THEN AfterAttempt(<<>>, detected_language, "done")
            ELSE AfterAttempt(StripChars(t.text), <<"e", "n">>, "done")
    /\ UNCHANGED <<whisper_client, audio>>
    /\ UNCHANGED nonSpeechVars

NextSpeech ==
    \/ SpeechToText
    \/ AutoDetect
    \/ ArabicAttempt
    \/ EnglishAttempt

\* ------------------------------------------------------------------------
\* AIService
\* ------------------------------------------------------------------------

\* the most exchanges one AIService is asked for
MaxExchanges == 12

\* len(self.conversation_history) > 20
HistoryLimit == 20

\* self.conversation_history[-10:]
RequestWindow == 10

\* s[-n:]
LastN(s, n) == IF Len(s) <= n THEN s ELSE SubSeq(s, Len(s) - n + 1, Len(s))

\* an entry of the history: the role, and as content the number of the exchange and whose
\* text it is
Entry(role, n, who) == [role |-> role, content |-> <<n, who>>]

NoAiResult == [success |-> FALSE, response |-> <<>>]

\* the history is cut to its first entries
RecordedKeepingFirst(history, n, who) ==
    LET h == history \o <<Entry("user", n, "user"), Entry("assistant", n, who)>>
    IN  IF Len(h) > HistoryLimit THEN SubSeq(h, 1, HistoryLimit) ELSE h

\* the history after the two appends and the cut of get_response
Recorded(history, n, who) ==
    LET h == history \o <<Entry("user", n, "user"), Entry("assistant", n, who)>>
    IN  IF Len(h) > HistoryLimit THEN LastN(h, HistoryLimit) ELSE h

\* get_response up to the request to the primary model: _get_gpt_response builds the
\* messages from the system prompt, the last entries of the history and the user message
GetResponse ==
    /\ ai_pc = "idle"
    /\ ai_count < MaxExchanges
    /\ ai_messages' = LastN(conversation_history, RequestWindow)
    /\ ai_pc' = "gpt"
    /\ ai_calls' = <<>>
    /\ UNCHANGED <<conversation_history, ai_count, ai_result>>
    /\ UNCHANGED nonAiVars

\* how _get_gpt_response ends: with the reply, or raising (no client, a vendor error, a
\* reply without content)
GptOutcomes == {"ok", "raise"}

\* how the validation request ends: a text that qualifies, a text that does not, no client,
\* an exception
ClaudeOutcomes == {"qualified", "unqualified", "no_client", "raise"}

\* the text _validate_with_claude returns
FinalResponseOf(outcome) == IF outcome = "qualified" THEN "claude" ELSE "gpt"

\* a failed turn records the user's message
GptReturnsRecordingFailure ==
    /\ ai_pc = "gpt"
    /\ \E outcome \in GptOutcomes :
         /\ ai_calls' = Append(ai_calls, [model |-> "gpt", outcome |-> outcome])
         /\ IF outcome = "ok"
            THEN /\ ai_pc' = "claude"
                 /\ UNCHANGED <<ai_result, conversation_history>>
            ELSE /\ ai_pc' = "idle"
                 /\ ai_result' = [success |-> FALSE, response |-> <<ai_count + 1, "fallback">>]
                 /\ conversation_history' =
                      Append(conversation_history, Entry("user", ai_count + 1, "user"))
    /\ UNCHANGED <<ai_messages, ai_count>>
    /\ UNCHANGED nonAiVars

\* the primary model answers, or the request raises and get_response returns the
\* fallback text
GptReturns ==
    /\ ai_pc = "gpt"
    /\ \E outcome \in GptOutcomes :
         /\ ai_calls' = Append(ai_calls, [model |-> "gpt", outcome |-> outcome])
         /\ IF outcome = "ok"
            THEN /\ ai_pc' = "claude"
                 /\ UNCHANGED ai_result
            ELSE /\ ai_pc' = "idle"
                 /\ ai_result' = [success |-> FALSE, response |-> <<ai_count + 1, "fallback">>]
    /\ UNCHANGED <<conversation_history, ai_messages, ai_count>>
    /\ UNCHANGED nonAiVars

\* _validate_with_claude returns the validator's text or, without a client, on an error or
\* when the text does not qualify, the primary text; the exchange is recorded
ClaudeReturns ==
    /\ ai_pc = "claude"
    /\ \E outcome \in ClaudeOutcomes :
         /\ ai_calls' = Append(ai_calls, [model |-> "claude", outcome |-> outcome])
         /\ conversation_history' =
              Recorded(conversation_history, ai_count + 1, FinalResponseOf(outcome))
         /\ ai_result' = [success |-> TRUE, response |-> <<ai_count + 1, FinalResponseOf(outcome)>>]
    /\ ai_count' = ai_count + 1
    /\ ai_pc' = "idle"
    /\ UNCHANGED ai_messages
    /\ UNCHANGED nonAiVars

\* clear_conversation
ClearConversation ==
    /\ ai_pc = "idle"
    /\ conversation_history # <<>>
    /\ conversation_history' = <<>>
    /\ UNCHANGED <<ai_pc, ai_messages, ai_count, ai_result, ai_calls>>
    /\ UNCHANGED nonAiVars

NextAi ==
    \/ GetResponse
    \/ GptReturns
    \/ ClaudeReturns
    \/ ClearConversation

\* ------------------------------------------------------------------------
\* OmaniMentalHealthBot.process_voice_input
\* ------------------------------------------------------------------------

\* the most turns one bot completes, and the most crisis events it records
MaxTurns == 3

NoBotResult ==
    [success |-> FALSE, stage |-> "", error |-> "", crisis_detected |-> FALSE,
     response_text |-> <<>>]

\* every failure is reported as an unexpected exception
BotFailureUnnamed(stage, error) ==
    [success |-> FALSE, stage |-> "general", error |-> error, crisis_detected |-> FALSE,
     response_text |-> <<>>]

\* the dictionary a failing stage makes process_voice_input return
BotFailure(stage, error) ==
    [success |-> FALSE, stage |-> stage, error |-> error, crisis_detected |-> FALSE,
     response_text |-> <<>>]

\* the stage invoked last has returned or raised
Returned(outcome) == [bot_calls EXCEPT ![Len(bot_calls)].outcome = outcome]

\* what transcribe_audio can give as the user's text: one text that names a crisis and
\* one that does not
BotTexts == { GreatDay, Capitalize(crisis_keywords[2]) }

\* the block _enhance_crisis_response puts after the response: EMERGENCY_CONTACTS
CrisisSupport ==
    <<Tok("Emergency", 9999), Tok("Hotline", 24673000), Tok("Ministry", 24602077)>>

\* _enhance_crisis_response
enhance_crisis_response(response_text) == response_text \o CrisisSupport

\* the response of get_ai_response: the models' text, or the canned text of
\* _get_fallback_response, which for a crisis names the emergency number
AiResponseText(outcome, crisis) ==
    IF outcome = "ok" THEN <<W(8)>>
    ELSE IF crisis THEN <<Tok("COMFORT", 0), Tok("Emergency", 9999), Tok("Hotline", 24673000)>>
    ELSE <<Tok("SORRY", 0)>>

\* process_voice_input up to the await of transcribe_audio
ProcessVoiceInput ==
    /\ bot_pc \in {"idle", "done"}
    /\ conversation_count < MaxTurns
    /\ Len(crisis_alerts) < MaxTurns
    /\ bot_pc' = "stt"
    /\ bot_calls' = <<[stage |-> "stt", outcome |-> "pending"]>>
    /\ bot_result' = NoBotResult
    /\ bot_user_text' = <<>>
    /\ bot_alerts_before' = Len(crisis_alerts)
    /\ UNCHANGED <<conversation_count, crisis_alerts>>
    /\ UNCHANGED nonBotVars

\* transcribe_audio returns a failure, a blank text or a text, or raises
BotSttReturns ==
    /\ bot_pc = "stt"
    /\ \E outcome \in {"fail", "blank", "ok", "raise"} :
         IF outcome = "ok"
         THEN /\ bot_calls' = Append(Returned("ok"), [stage |-> "ai", outcome |-> "pending"])
              /\ bot_pc' = "ai"
              /\ \E text \in BotTexts : bot_user_text' = text
              /\ UNCHANGED bot_result
         ELSE /\ bot_calls' = Returned(outcome)
              /\ bot_pc' = "done"
              /\ bot_result' =
                   IF outcome = "fail" THEN BotFailure("stt", "Speech recognition failed")
                   ELSE IF outcome = "blank" THEN BotFailure("stt", "No speech detected")
                   ELSE BotFailure("general", "exception")
              /\ UNCHANGED bot_user_text
    /\ UNCHANGED <<conversation_count, crisis_alerts, bot_alerts_before>>
    /\ UNCHANGED nonBotVars

\* get_ai_response returns a failure or a response, each with the crisis flag of the
\* user's text, or raises; the crisis of a successful call is recorded and the response
\* extended before text-to-speech is invoked
BotAiReturns ==
    /\ bot_pc = "ai"
    /\ \E outcome \in {"fail", "ok", "raise"} :
         LET crisis == ai_detect_crisis(bot_user_text)
             text   == AiResponseText(outcome, crisis)
         IN  IF outcome = "ok"
             THEN /\ bot_calls' = Append(Returned("ok"), [stage |-> "tts", outcome |-> "pending"])
                  /\ bot_pc' = "tts"
                  /\ bot_result' =
                       [bot_result EXCEPT !.crisis_detected = crisis,
                                          !.response_text =
                                              IF crisis THEN enhance_crisis_response(text)
                                              ELSE text]
                  /\ crisis_alerts' =
                       IF crisis
                       THEN Append(crisis_alerts,
                                   [user_text |-> bot_user_text, response_text |-> text])
                       ELSE crisis_alerts
             ELSE /\ bot_calls' = Returned(outcome)
                  /\ bot_pc' = "done"
                  /\ bot_result' = IF outcome = "fail"
                                   THEN BotFailure("ai", "AI processing failed")
                                   ELSE BotFailure("general", "exception")
                  /\ UNCHANGED crisis_alerts
    /\ UNCHANGED <<conversation_count, bot_user_text, bot_alerts_before>>
    /\ UNCHANGED nonBotVars

\* synthesize_speech returns a failure or the audio, or raises; a turn that succeeds is
\* counted; the failure of text-to-speech keeps the response text in the result
BotTtsReturns ==
    /\ bot_pc = "tts"
    /\ \E outcome \in {"fail", "ok", "raise"} :
         /\ bot_calls' = Returned(outcome)
         /\ bot_pc' = "done"
         /\ IF outcome = "ok"
            THEN /\ bot_result' = [bot_result EXCEPT !.success = TRUE]
                 /\ conversation_count' = conversation_count + 1
            ELSE /\ bot_result' =
                      IF outcome = "fail"
                      THEN [BotFailure("tts", "Speech synthesis failed")
                            EXCEPT !.response_text = bot_result.response_text]
                      ELSE BotFailure("general", "exception")
                 /\ UNCHANGED conversation_count
    /\ UNCHANGED <<crisis_alerts, bot_user_text, bot_alerts_before>>
    /\ UNCHANGED nonBotVars

NextBot ==
    \/ ProcessVoiceInput
    \/ BotSttReturns
    \/ BotAiReturns
    \/ BotTtsReturns

\* ------------------------------------------------------------------------
\* The code-switching detectors
\* ------------------------------------------------------------------------

\* CODESWITCHING_PATTERNS of config.py, category after category
CODESWITCHING_PATTERNS ==
    << <<"t", "o", "d", "a", "y", " ", "U0627", "U0644", "U064A", "U0648", "U0645">>,
       <<"t", "o", "m", "o", "r", "r", "o", "w", " ", "U0628", "U0643", "U0631", "U0629">>,
       <<"n", "o", "w", " ", "U0627", "U0644", "U062D", "U064A", "U0646">>,
       <<"l", "a", "t", "e", "r", " ", "U0628", "U0639", "U062F", "U064A", "U0646">>,
       <<"h", "a", "p", "p", "y", " ", "U0645", "U0628", "U0633", "U0648", "U0637">>,
       <<"s", "a", "d", " ", "U062D", "U0632", "U064A", "U0646">>,
       <<"s", "t", "r", "e", "s", "s", "e", "d", " ", "U0645", "U062A", "U0648", "U062A", "U0631">>,
       <<"t", "i", "r", "e", "d", " ", "U062A", "U0639", "U0628", "U0627", "U0646">>,
       <<"m", "y", " ", "f", "a", "m", "i", "l", "y", " ", "U0623", "U0647", "U0644", "U064A">>,
       <<"m", "y", " ", "m", "o", "m", " ", "U0623", "U0645", "U064A">>,
       <<"m", "y", " ", "d", "a", "d", " ", "U0623", "U0628", "U0648", "U064A">>,
       <<"m", "y", " ", "k", "i", "d", "s", " ", "U0639", "U064A", "U0627", "U0644", "U064A">>,
       <<"m", "y", " ", "w", "o", "r", "k", " ", "U0634", "U063A", "U0644", "U064A">>,
       <<"m", "y", " ", "j", "o", "b", " ", "U0648", "U0638", "U064A", "U0641", "U062A", "U064A">>,
       <<"m", "y", " ", "b", "o", "s", "s", " ", "U0627", "U0644", "U0645", "U062F", "U064A", "U0631">>,
       <<"c", "o", "l", "l", "e", "a", "g", "u", "e", " ", "U0632", "U0645", "U064A", "U0644">>,
       <<"w", "a", "l", "l", "a", "h", " ", "U0648", "U0627", "U0644", "U0644", "U0647">>,
       <<"y", "a", "l", "l", "a", " ", "U064A", "U0644", "U0627">>,
       <<"i", "n", "s", "h", "a", "l", "l", "a", "h", " ", "U0625", "U0646", " ", "U0634", "U0627", "U0621", " ", "U0627", "U0644", "U0644", "U0647">>,
       <<"m", "a", "s", "h", "a", "l", "l", "a", "h", " ", "U0645", "U0627", "U0634", "U0627", "U0621", " ", "U0627", "U0644", "U0644", "U0647">>,
       <<"U0628", "U0633", " ", "b", "u", "t">>,
       <<"U0644", "U0643", "U0646", " ", "h", "o", "w", "e", "v", "e", "r">>,
       <<"U064A", "U0639", "U0646", "U064A", " ", "I", " ", "m", "e", "a", "n">>,
       <<"U0623", "U0648", " ", "o", "r">> >>

\* ord() of the characters that are named by their code point
NamedCodePoints ==
    { <<"U00E9", 233>>, <<"U05FF", 1535>>, <<"U0600", 1536>>, <<"U0621", 1569>>,
      <<"U0623", 1571>>, <<"U0625", 1573>>, <<"U0627", 1575>>, <<"U0628", 1576>>,
      <<"U0629", 1577>>, <<"U062A", 1578>>, <<"U062D", 1581>>, <<"U062F", 1583>>,
      <<"U0631", 1585>>, <<"U0632", 1586>>, <<"U0633", 1587>>, <<"U0634", 1588>>,
      <<"U0637", 1591>>, <<"U0638", 1592>>, <<"U0639", 1593>>, <<"U063A", 1594>>,
      <<"U0641", 1601>>, <<"U0643", 1603>>, <<"U0644", 1604>>, <<"U0645", 1605>>,
      <<"U0646", 1606>>, <<"U0647", 1607>>, <<"U0648", 1608>>, <<"U064A", 1610>>,
      <<"U06FF", 1791>>, <<"U0700", 1792>> }

\* ord(char)
Ord(char) ==
    IF \E i \in 1..26 : LowerCase[i] = char THEN 96 + (CHOOSE i \in 1..26 : LowerCase[i] = char)
    ELSE IF \E i \in 1..26 : UpperCase[i] = char THEN 64 + (CHOOSE i \in 1..26 : UpperCase[i] = char)
    ELSE IF \E p \in NamedCodePoints : p[1] = char THEN (CHOOSE p \in NamedCodePoints : p[1] = char)[2]
    ELSE IF char = " " THEN 32
    ELSE IF char = "'" THEN 39
    ELSE 49

\* char.isalpha(): the letters of ASCII, of Latin-1 and of the Arabic block
IsAlpha(char) ==
    \/ Ord(char) \in 65..90
    \/ Ord(char) \in 97..122
    \/ Ord(char) \in 192..255
    \/ Ord(char) \in 1568..1610
\* any('\u0600' <= char <= '\u06FF' for char in text)
has_arabic(text) == \E i \in 1..Len(text) : 1536 <= Ord(text[i]) /\ Ord(text[i]) <= 1791

\* only small letters count as English
has_english_small(text) == \E i \in 1..Len(text) : Ord(text[i]) \in 97..122

\* any(char.isalpha() and ord(char) < 128 for char in text)
has_english(text) == \E i \in 1..Len(text) : IsAlpha(text[i]) /\ Ord(text[i]) < 128

\* codeswitching_indicators: the patterns that occur in the text, capitals ignored
codeswitching_indicators(text) ==
    Cardinality({k \in 1..Len(CODESWITCHING_PATTERNS) :
                    Contains(Lower(text), Lower(CODESWITCHING_PATTERNS[k]))})

\* AIService._detect_codeswitching
ai_detect_codeswitching(text) ==
    IF text = <<>> THEN FALSE
    ELSE (has_arabic(text) /\ has_english(text)) \/ codeswitching_indicators(text) >= 2

\* SpeechService._detect_codeswitching
speech_detect_codeswitching(text) ==
    IF text = <<>> THEN FALSE
    ELSE (has_arabic(text) /\ has_english(text)) \/ codeswitching_indicators(text) >= 2

\* the longest text of single characters handed to a detector
MaxCsLen == 3

\* characters at and around the ends of the Arabic block, letters, a digit, a space
CsAlphabet == {"U05FF", "U0600", "U0627", "U06FF", "U0700", "a", "Z", "1", " ", "U00E9"}

\* the texts handed to the code-switching detectors: short texts over the alphabet, a
\* pattern, and two patterns in one text
CsTexts ==
    UNION {[1..n -> CsAlphabet] : n \in 0..MaxCsLen}
    \cup {CODESWITCHING_PATTERNS[1], Shout(CODESWITCHING_PATTERNS[17]),
          CODESWITCHING_PATTERNS[5] \o <<" ">> \o CODESWITCHING_PATTERNS[18]}

DetectCodeswitchingAI ==
    /\ det_which = "none"
    /\ det_which' = "cs_ai"
    /\ det_result' = ai_detect_codeswitching(det_text)
    /\ UNCHANGED det_text
    /\ UNCHANGED nonDetVars

DetectCodeswitchingSpeech ==
    /\ det_which = "none"
    /\ det_which' = "cs_speech"
    /\ det_result' = speech_detect_codeswitching(det_text)
    /\ UNCHANGED det_text
    /\ UNCHANGED nonDetVars

NextCs ==
    \/ DetectCodeswitchingAI
    \/ DetectCodeswitchingSpeech

\* ------------------------------------------------------------------------
\* The speech operations of OmaniVoiceService (voice_service.py) and the
\* speech synthesis of SpeechService (speech_service.py).  A result is the
\* returned dictionary, reduced to its success flag, its content (the text
\* of a recognition, the audio_data of a synthesis) and its error string;
\* raised says that the call ended in an exception instead.

VoiceReturn(success, content, error) == [raised |-> FALSE, success |-> success, content |-> content, error |-> error]

VoiceRaise(error) == [raised |-> TRUE, success |-> FALSE, content |-> <<>>, error |-> error]

\* the audio_data handed to speech_to_text: None (the microphone) or bytes
VoiceAudio ==
    { [none |-> TRUE, data |-> <<>>], [none |-> FALSE, data |-> <<>>],
      [none |-> FALSE, data |-> <<"RIFF", "pcm">>] }

\* the text handed to text_to_speech: None or a string
VoiceTexts ==
    { [none |-> TRUE, data |-> <<>>] } \cup
    { [none |-> FALSE, data |-> t] : t \in { <<>>, Blank, <<"h", "i">>, <<" ", "h", "i", " ">> } }

\* what recognize_once_async().get() gives: a result with its reason and
\* text, or an exception
RecognitionResults ==
    { [reason |-> "RecognizedSpeech", text |-> t] : t \in { <<>>, Blank, <<"h", "i">>, <<"h", "i", " ">> } } \cup
    { [reason |-> r, text |-> <<>>] : r \in {"NoMatch", "Canceled", "Other", "TimeoutError", "Exception"} }

\* what speak_text_async().get() and speak_ssml_async().get() give
SynthesisResults ==
    { [reason |-> "SynthesizingAudioCompleted", audio_data |-> a] : a \in { <<"RIFF">>, <<"RIFF", "pcm">> } } \cup
    { [reason |-> r, audio_data |-> <<>>] : r \in {"Canceled", "Other", "Exception"} }

\* OmaniVoiceService.speech_to_text
voice_speech_to_text(audio_data, result) ==
    IF ~speech_config THEN VoiceReturn(FALSE, <<>>, "Speech service not initialized")
    ELSE CASE result.reason = "RecognizedSpeech" -> VoiceReturn(TRUE, StripChars(result.text), "")
           [] result.reason = "NoMatch"          -> VoiceReturn(FALSE, <<>>, "No speech detected in audio")
           [] result.reason = "Canceled"         -> VoiceReturn(FALSE, <<>>, "Recognition canceled")
           [] result.reason = "TimeoutError"     -> VoiceReturn(FALSE, <<>>, "Speech recognition timeout")
           [] result.reason = "Exception"        -> VoiceReturn(FALSE, <<>>, "STT processing error")
           [] OTHER                              -> VoiceReturn(FALSE, <<>>, "Recognition failed")

\* OmaniVoiceService.text_to_speech; text.strip() is called before the try
voice_text_to_speech(text, result) ==
    IF ~speech_config THEN VoiceReturn(FALSE, <<>>, "Speech service not initialized")
    ELSE IF text.none THEN VoiceRaise("AttributeError")
    ELSE IF StripChars(text.data) = <<>> THEN VoiceReturn(FALSE, <<>>, "Empty text provided")
    ELSE CASE result.reason = "SynthesizingAudioCompleted" -> VoiceReturn(TRUE, result.audio_data, "")
           [] result.reason = "Canceled"                   -> VoiceReturn(FALSE, <<>>, "TTS canceled")
           [] result.reason = "Exception"                  -> VoiceReturn(FALSE, <<>>, "TTS processing error")
           [] OTHER                                        -> VoiceReturn(FALSE, <<>>, "TTS failed")

\* SpeechService.text_to_speech; the whole body is inside the try, and
\* _create_ssml iterates over the text
speech_text_to_speech(text, result) ==
    IF ~azure_speech_config THEN VoiceReturn(FALSE, <<>>, "Azure TTS not available - Azure Speech key required")
    ELSE IF text.none THEN VoiceReturn(FALSE, <<>>, "TypeError")
    ELSE CASE result.reason = "SynthesizingAudioCompleted" -> VoiceReturn(TRUE, result.audio_data, "")
           [] result.reason = "Exception"                  -> VoiceReturn(FALSE, <<>>, "Exception")
           [] OTHER                                        -> VoiceReturn(FALSE, <<>>, "TTS failed")

VoiceCalled(op, input, result) ==
    /\ voice_op' = op
    /\ voice_input' = input
    /\ voice_result' = result
    /\ UNCHANGED <<speech_config, azure_speech_config, nonVoiceVars>>

VoiceSpeechToText ==
    \E audio_data \in VoiceAudio, result \in RecognitionResults :
        VoiceCalled("OmaniVoiceService.speech_to_text", audio_data, voice_speech_to_text(audio_data, result))

VoiceTextToSpeech ==
    \E text \in VoiceTexts, result \in SynthesisResults :
        VoiceCalled("OmaniVoiceService.text_to_speech", text, voice_text_to_speech(text, result))

SpeechTextToSpeech ==
    \E text \in VoiceTexts, result \in SynthesisResults :
        VoiceCalled("SpeechService.text_to_speech", text, speech_text_to_speech(text, result))

NextVoice ==
    \/ VoiceSpeechToText
    \/ VoiceTextToSpeech
    \/ SpeechTextToSpeech

\* the latest reading of time.time()
MaxClock == 1

\* time passes
Tick ==
    /\ now < MaxClock
    /\ now' = now + 1
    /\ UNCHANGED <<clients, active_sessions, ws_pc, ws_open, ws_log, ws_start, ws_text,
                   ws_response>>
    /\ UNCHANGED nonWsVars

\* an awaited call of the turn in hand returns or raises
VendorReturns(c) == SttDone(c) \/ ChatDone(c) \/ TtsDone(c) \/ TextChatDone(c)

\* the server with a single client
NextOne ==
    \/ Connect("c1")
    \/ Disconnect("c1")
    \/ HandlerEnds("c1")
    \/ Receive("c1")
    \/ SttDone("c1")
    \/ ChatDone("c1")
    \/ TtsDone("c1")
    \/ TextChatDone("c1")

\* the server with a single client and the clock running
NextTimed == NextOne \/ Tick

\* ------------------------------------------------------------------------
\* Specifications: one component runs, the others rest
\* ------------------------------------------------------------------------

\* DualModelValidator.__init__; no detector call, the chatbot as constructed
InitGate ==
    /\ gpc = "idle"
    /\ openai_client \in BOOLEAN
    /\ anthropic_client \in BOOLEAN
    /\ primary_model = "gpt-4o"
    /\ primary_response = NoResponse
    /\ validation_response = NoValidation
    /\ gate_result = NoResult
    /\ gate_calls = <<>>
    /\ gate_raised = FALSE
    /\ validator_calls = <<>>
    /\ det_which = "none"
    /\ det_text = <<>>
    /\ det_result = FALSE
    /\ chat_pc = "idle"
    /\ language = "English"
    /\ use_dual_validation = TRUE
    /\ therapeutic_mode = TRUE
    /\ dual_model_service = TRUE
    /\ llm = "langchain"
    /\ model_name = "gpt-3.5-turbo"
    /\ user_input = <<>>
    /\ crisis_detected = FALSE
    /\ chat_path = <<>>
    /\ chat_result = NoChatResult
    /\ clients = {}
    /\ active_sessions = <<>>
    /\ now = 0
    /\ ws_pc = [c \in Conns |-> "closed"]
    /\ ws_open = [c \in Conns |-> FALSE]
    /\ ws_log = [c \in Conns |-> <<>>]
    /\ ws_start = [c \in Conns |-> 0]
    /\ ws_text = [c \in Conns |-> <<>>]
    /\ ws_response = [c \in Conns |-> NoChatResult]
    /\ gpt4o_access = TRUE
    /\ whisper_client = TRUE
    /\ audio = NoAudio
    /\ stt_pc = "idle"
    /\ stt_calls = <<>>
    /\ transcribed_text = <<>>
    /\ detected_language = <<>>
    /\ speech_result = NoSttResult
    /\ conversation_history = <<>>
    /\ ai_pc = "idle"
    /\ ai_messages = <<>>
    /\ ai_count = 0
    /\ ai_result = NoAiResult
    /\ ai_calls = <<>>
    /\ bot_pc = "idle"
    /\ bot_calls = <<>>
    /\ bot_result = NoBotResult
    /\ bot_user_text = <<>>
    /\ bot_alerts_before = 0
    /\ conversation_count = 0
    /\ crisis_alerts = <<>>
    /\ speech_config = FALSE
    /\ azure_speech_config = FALSE
    /\ voice_op = "none"
    /\ voice_input = [none |-> TRUE, data |-> <<>>]
    /\ voice_result = [raised |-> FALSE, success |-> FALSE, content |-> <<>>, error |-> ""]

SpecGate == InitGate /\ [][NextGate]_vars

\* a text is handed to a detector; the gate and the chatbot are idle
InitDet ==
    /\ det_which = "none"
    /\ det_text \in Texts
    /\ det_result = FALSE
    /\ gpc = "idle"
    /\ openai_client = TRUE
    /\ anthropic_client = TRUE
    /\ primary_model = "gpt-4o"
    /\ primary_response = NoResponse
    /\ validation_response = NoValidation
    /\ gate_result = NoResult
    /\ gate_calls = <<>>
    /\ gate_raised = FALSE
    /\ validator_calls = <<>>
    /\ chat_pc = "idle"
    /\ language = "English"
    /\ use_dual_validation = TRUE
    /\ therapeutic_mode = TRUE
    /\ dual_model_service = TRUE
    /\ llm = "langchain"
    /\ model_name = "gpt-3.5-turbo"
    /\ user_input = <<>>
    /\ crisis_detected = FALSE
    /\ chat_path = <<>>
    /\ chat_result = NoChatResult
    /\ clients = {}
    /\ active_sessions = <<>>
    /\ now = 0
    /\ ws_pc = [c \in Conns |-> "closed"]
    /\ ws_open = [c \in Conns |-> FALSE]
    /\ ws_log = [c \in Conns |-> <<>>]
    /\ ws_start = [c \in Conns |-> 0]
    /\ ws_text = [c \in Conns |-> <<>>]
    /\ ws_response = [c \in Conns |-> NoChatResult]
    /\ gpt4o_access = TRUE
    /\ whisper_client = TRUE
    /\ audio = NoAudio
    /\ stt_pc = "idle"
    /\ stt_calls = <<>>
    /\ transcribed_text = <<>>
    /\ detected_language = <<>>
    /\ speech_result = NoSttResult
    /\ conversation_history = <<>>
    /\ ai_pc = "idle"
    /\ ai_messages = <<>>
    /\ ai_count = 0
    /\ ai_result = NoAiResult
    /\ ai_calls = <<>>
    /\ bot_pc = "idle"
    /\ bot_calls = <<>>
    /\ bot_result = NoBotResult
    /\ bot_user_text = <<>>
    /\ bot_alerts_before = 0
    /\ conversation_count = 0
    /\ crisis_alerts = <<>>
    /\ speech_config = FALSE
    /\ azure_speech_config = FALSE
    /\ voice_op = "none"
    /\ voice_input = [none |-> TRUE, data |-> <<>>]
    /\ voice_result = [raised |-> FALSE, success |-> FALSE, content |-> <<>>, error |-> ""]

SpecCrisis == InitDet /\ [][NextDet]_vars

\* OmaniMentalHealthChatbot.__init__, with the dual-model service it found
InitChat ==
    /\ chat_pc = "idle"
    /\ language = "English"
    /\ use_dual_validation = TRUE
    /\ therapeutic_mode = TRUE
    /\ dual_model_service \in BOOLEAN
    /\ llm \in {"langchain", "openai", "none"}
    /\ model_name = "gpt-3.5-turbo"
    /\ user_input = <<>>
    /\ crisis_detected = FALSE
    /\ chat_path = <<>>
    /\ chat_result = NoChatResult
    /\ gpc = "idle"
    /\ openai_client \in BOOLEAN
    /\ anthropic_client \in BOOLEAN
    /\ primary_model = "gpt-4o"
    /\ primary_response = NoResponse
    /\ validation_response = NoValidation
    /\ gate_result = NoResult
    /\ gate_calls = <<>>
    /\ gate_raised = FALSE
    /\ validator_calls = <<>>
    /\ det_which = "none"
    /\ det_text = <<>>
    /\ det_result = FALSE
    /\ clients = {}
    /\ active_sessions = <<>>
    /\ now = 0
    /\ ws_pc = [c \in Conns |-> "closed"]
    /\ ws_open = [c \in Conns |-> FALSE]
    /\ ws_log = [c \in Conns |-> <<>>]
    /\ ws_start = [c \in Conns |-> 0]
    /\ ws_text = [c \in Conns |-> <<>>]
    /\ ws_response = [c \in Conns |-> NoChatResult]
    /\ gpt4o_access = TRUE
    /\ whisper_client = TRUE
    /\ audio = NoAudio
    /\ stt_pc = "idle"
    /\ stt_calls = <<>>
    /\ transcribed_text = <<>>
    /\ detected_language = <<>>
    /\ speech_result = NoSttResult
    /\ conversation_history = <<>>
    /\ ai_pc = "idle"
    /\ ai_messages = <<>>
    /\ ai_count = 0
    /\ ai_result = NoAiResult
    /\ ai_calls = <<>>
    /\ bot_pc = "idle"
    /\ bot_calls = <<>>
    /\ bot_result = NoBotResult
    /\ bot_user_text = <<>>
    /\ bot_alerts_before = 0
    /\ conversation_count = 0
    /\ crisis_alerts = <<>>
    /\ speech_config = FALSE
    /\ azure_speech_config = FALSE
    /\ voice_op = "none"
    /\ voice_input = [none |-> TRUE, data |-> <<>>]
    /\ voice_result = [raised |-> FALSE, success |-> FALSE, content |-> <<>>, error |-> ""]

SpecChat == InitChat /\ [][NextChat]_vars

\* VoiceWebSocketServer.__init__: no client yet
InitWS ==
    /\ clients = {}
    /\ active_sessions = <<>>
    /\ now = 0
    /\ ws_pc = [c \in Conns |-> "closed"]
    /\ ws_open = [c \in Conns |-> FALSE]
    /\ ws_log = [c \in Conns |-> <<>>]
    /\ ws_start = [c \in Conns |-> 0]
    /\ ws_text = [c \in Conns |-> <<>>]
    /\ ws_response = [c \in Conns |-> NoChatResult]
    /\ chat_pc = "idle"
    /\ language = "English"
    /\ use_dual_validation = TRUE
    /\ therapeutic_mode = TRUE
    /\ dual_model_service = TRUE
    /\ llm = "langchain"
    /\ model_name = "gpt-3.5-turbo"
    /\ user_input = <<>>
    /\ crisis_detected = FALSE
    /\ chat_path = <<>>
    /\ chat_result = NoChatResult
    /\ gpc = "idle"
    /\ openai_client = TRUE
    /\ anthropic_client = TRUE
    /\ primary_model = "gpt-4o"
    /\ primary_response = NoResponse
    /\ validation_response = NoValidation
    /\ gate_result = NoResult
    /\ gate_calls = <<>>
    /\ gate_raised = FALSE
    /\ validator_calls = <<>>
    /\ det_which = "none"
    /\ det_text = <<>>
    /\ det_result = FALSE
    /\ gpt4o_access = TRUE
    /\ whisper_client = TRUE
    /\ audio = NoAudio
    /\ stt_pc = "idle"
    /\ stt_calls = <<>>
    /\ transcribed_text = <<>>
    /\ detected_language = <<>>
    /\ speech_result = NoSttResult
    /\ conversation_history = <<>>
    /\ ai_pc = "idle"
    /\ ai_messages = <<>>
    /\ ai_count = 0
    /\ ai_result = NoAiResult
    /\ ai_calls = <<>>
    /\ bot_pc = "idle"
    /\ bot_calls = <<>>
    /\ bot_result = NoBotResult
    /\ bot_user_text = <<>>
    /\ bot_alerts_before = 0
    /\ conversation_count = 0
    /\ crisis_alerts = <<>>
    /\ speech_config = FALSE
    /\ azure_speech_config = FALSE
    /\ voice_op = "none"
    /\ voice_input = [none |-> TRUE, data |-> <<>>]
    /\ voice_result = [raised |-> FALSE, success |-> FALSE, content |-> <<>>, error |-> ""]

SpecWS == InitWS /\ [][NextWS]_vars

\* VoiceWebSocketServer.__init__, the account having no access to gpt-4o
InitWSNoAccess ==
    /\ clients = {}
    /\ active_sessions = <<>>
    /\ now = 0
    /\ ws_pc = [c \in Conns |-> "closed"]
    /\ ws_open = [c \in Conns |-> FALSE]
    /\ ws_log = [c \in Conns |-> <<>>]
    /\ ws_start = [c \in Conns |-> 0]
    /\ ws_text = [c \in Conns |-> <<>>]
    /\ ws_response = [c \in Conns |-> NoChatResult]
    /\ chat_pc = "idle"
    /\ language = "English"
    /\ use_dual_validation = TRUE
    /\ therapeutic_mode = TRUE
    /\ dual_model_service = TRUE
    /\ llm = "langchain"
    /\ model_name = "gpt-3.5-turbo"
    /\ user_input = <<>>
    /\ crisis_detected = FALSE
    /\ chat_path = <<>>
    /\ chat_result = NoChatResult
    /\ gpc = "idle"
    /\ openai_client = TRUE
    /\ anthropic_client = TRUE
    /\ primary_model = "gpt-4o"
    /\ primary_response = NoResponse
    /\ validation_response = NoValidation
    /\ gate_result = NoResult
    /\ gate_calls = <<>>
    /\ gate_raised = FALSE
    /\ validator_calls = <<>>
    /\ det_which = "none"
    /\ det_text = <<>>
    /\ det_result = FALSE
    /\ gpt4o_access = FALSE
    /\ whisper_client = TRUE
    /\ audio = NoAudio
    /\ stt_pc = "idle"
    /\ stt_calls = <<>>
    /\ transcribed_text = <<>>
    /\ detected_language = <<>>
    /\ speech_result = NoSttResult
    /\ conversation_history = <<>>
    /\ ai_pc = "idle"
    /\ ai_messages = <<>>
    /\ ai_count = 0
    /\ ai_result = NoAiResult
    /\ ai_calls = <<>>
    /\ bot_pc = "idle"
    /\ bot_calls = <<>>
    /\ bot_result = NoBotResult
    /\ bot_user_text = <<>>
    /\ bot_alerts_before = 0
    /\ conversation_count = 0
    /\ crisis_alerts = <<>>
    /\ speech_config = FALSE
    /\ azure_speech_config = FALSE
    /\ voice_op = "none"
    /\ voice_input = [none |-> TRUE, data |-> <<>>]
    /\ voice_result = [raised |-> FALSE, success |-> FALSE, content |-> <<>>, error |-> ""]

\* the relay where the validator's first call fails for want of access to its model
SpecWSNoAccess == InitWSNoAccess /\ [][NextWS]_vars

\* one client, every awaited vendor call returning or raising
SpecWSOne == InitWS /\ [][NextOne]_vars /\ WF_vars(VendorReturns("c1"))

\* one client, with the time its turns take
SpecWSTimed == InitWS /\ [][NextTimed]_vars

\* SpeechService.__init__ with or without an API key, and an audio to transcribe
InitSpeech ==
    /\ whisper_client \in BOOLEAN
    /\ audio \in Audios
    /\ clients = {}
    /\ active_sessions = <<>>
    /\ now = 0
    /\ ws_pc = [c \in Conns |-> "closed"]
    /\ ws_open = [c \in Conns |-> FALSE]
    /\ ws_log = [c \in Conns |-> <<>>]
    /\ ws_start = [c \in Conns |-> 0]
    /\ ws_text = [c \in Conns |-> <<>>]
    /\ ws_response = [c \in Conns |-> NoChatResult]
    /\ chat_pc = "idle"
    /\ language = "English"
    /\ use_dual_validation = TRUE
    /\ therapeutic_mode = TRUE
    /\ dual_model_service = TRUE
    /\ llm = "langchain"
    /\ model_name = "gpt-3.5-turbo"
    /\ user_input = <<>>
    /\ crisis_detected = FALSE
    /\ chat_path = <<>>
    /\ chat_result = NoChatResult
    /\ gpc = "idle"
    /\ openai_client = TRUE
    /\ anthropic_client = TRUE
    /\ primary_model = "gpt-4o"
    /\ primary_response = NoResponse
    /\ validation_response = NoValidation
    /\ gate_result = NoResult
    /\ gate_calls = <<>>
    /\ gate_raised = FALSE
    /\ validator_calls = <<>>
    /\ det_which = "none"
    /\ det_text = <<>>
    /\ det_result = FALSE
    /\ gpt4o_access = TRUE
    /\ stt_pc = "idle"
    /\ stt_calls = <<>>
    /\ transcribed_text = <<>>
    /\ detected_language = <<>>
    /\ speech_result = NoSttResult
    /\ conversation_history = <<>>
    /\ ai_pc = "idle"
    /\ ai_messages = <<>>
    /\ ai_count = 0
    /\ ai_result = NoAiResult
    /\ ai_calls = <<>>
    /\ bot_pc = "idle"
    /\ bot_calls = <<>>
    /\ bot_result = NoBotResult
    /\ bot_user_text = <<>>
    /\ bot_alerts_before = 0
    /\ conversation_count = 0
    /\ crisis_alerts = <<>>
    /\ speech_config = FALSE
    /\ azure_speech_config = FALSE
    /\ voice_op = "none"
    /\ voice_input = [none |-> TRUE, data |-> <<>>]
    /\ voice_result = [raised |-> FALSE, success |-> FALSE, content |-> <<>>, error |-> ""]

SpecSpeech == InitSpeech /\ [][NextSpeech]_vars

\* AIService.__init__: the history is empty
InitAi ==
    /\ conversation_history = <<>>
    /\ clients = {}
    /\ active_sessions = <<>>
    /\ now = 0
    /\ ws_pc = [c \in Conns |-> "closed"]
    /\ ws_open = [c \in Conns |-> FALSE]
    /\ ws_log = [c \in Conns |-> <<>>]
    /\ ws_start = [c \in Conns |-> 0]
    /\ ws_text = [c \in Conns |-> <<>>]
    /\ ws_response = [c \in Conns |-> NoChatResult]
    /\ chat_pc = "idle"
    /\ language = "English"
    /\ use_dual_validation = TRUE
    /\ therapeutic_mode = TRUE
    /\ dual_model_service = TRUE
    /\ llm = "langchain"
    /\ model_name = "gpt-3.5-turbo"
    /\ user_input = <<>>
    /\ crisis_detected = FALSE
    /\ chat_path = <<>>
    /\ chat_result = NoChatResult
    /\ gpc = "idle"
    /\ openai_client = TRUE
    /\ anthropic_client = TRUE
    /\ primary_model = "gpt-4o"
    /\ primary_response = NoResponse
    /\ validation_response = NoValidation
    /\ gate_result = NoResult
    /\ gate_calls = <<>>
    /\ gate_raised = FALSE
    /\ validator_calls = <<>>
    /\ det_which = "none"
    /\ det_text = <<>>
    /\ det_result = FALSE
    /\ gpt4o_access = TRUE
    /\ whisper_client = TRUE
    /\ audio = NoAudio
    /\ stt_pc = "idle"
    /\ stt_calls = <<>>
    /\ transcribed_text = <<>>
    /\ detected_language = <<>>
    /\ speech_result = NoSttResult
    /\ ai_pc = "idle"
    /\ ai_messages = <<>>
    /\ ai_count = 0
    /\ ai_result = NoAiResult
    /\ ai_calls = <<>>
    /\ bot_pc = "idle"
    /\ bot_calls = <<>>
    /\ bot_result = NoBotResult
    /\ bot_user_text = <<>>
    /\ bot_alerts_before = 0
    /\ conversation_count = 0
    /\ crisis_alerts = <<>>
    /\ speech_config = FALSE
    /\ azure_speech_config = FALSE
    /\ voice_op = "none"
    /\ voice_input = [none |-> TRUE, data |-> <<>>]
    /\ voice_result = [raised |-> FALSE, success |-> FALSE, content |-> <<>>, error |-> ""]

SpecAi == InitAi /\ [][NextAi]_vars

\* a text is handed to a code-switching detector
InitCs ==
    /\ det_text \in CsTexts
    /\ clients = {}
    /\ active_sessions = <<>>
    /\ now = 0
    /\ ws_pc = [c \in Conns |-> "closed"]
    /\ ws_open = [c \in Conns |-> FALSE]
    /\ ws_log = [c \in Conns |-> <<>>]
    /\ ws_start = [c \in Conns |-> 0]
    /\ ws_text = [c \in Conns |-> <<>>]
    /\ ws_response = [c \in Conns |-> NoChatResult]
    /\ chat_pc = "idle"
    /\ language = "English"
    /\ use_dual_validation = TRUE
    /\ therapeutic_mode = TRUE
    /\ dual_model_service = TRUE
    /\ llm = "langchain"
    /\ model_name = "gpt-3.5-turbo"
    /\ user_input = <<>>
    /\ crisis_detected = FALSE
    /\ chat_path = <<>>
    /\ chat_result = NoChatResult
    /\ gpc = "idle"
    /\ openai_client = TRUE
    /\ anthropic_client = TRUE
    /\ primary_model = "gpt-4o"
    /\ primary_response = NoResponse
    /\ validation_response = NoValidation
    /\ gate_result = NoResult
    /\ gate_calls = <<>>
    /\ gate_raised = FALSE
    /\ validator_calls = <<>>
    /\ det_which = "none"
    /\ det_result = FALSE
    /\ gpt4o_access = TRUE
    /\ whisper_client = TRUE
    /\ audio = NoAudio
    /\ stt_pc = "idle"
    /\ stt_calls = <<>>
    /\ transcribed_text = <<>>
    /\ detected_language = <<>>
    /\ speech_result = NoSttResult
    /\ conversation_history = <<>>
    /\ ai_pc = "idle"
    /\ ai_messages = <<>>
    /\ ai_count = 0
    /\ ai_result = NoAiResult
    /\ ai_calls = <<>>
    /\ bot_pc = "idle"
    /\ bot_calls = <<>>
    /\ bot_result = NoBotResult
    /\ bot_user_text = <<>>
    /\ bot_alerts_before = 0
    /\ conversation_count = 0
    /\ crisis_alerts = <<>>
    /\ speech_config = FALSE
    /\ azure_speech_config = FALSE
    /\ voice_op = "none"
    /\ voice_input = [none |-> TRUE, data |-> <<>>]
    /\ voice_result = [raised |-> FALSE, success |-> FALSE, content |-> <<>>, error |-> ""]

SpecCodeswitching == InitCs /\ [][NextCs]_vars

\* OmaniMentalHealthBot.__init__
InitBot ==
    /\ bot_pc = "idle"
    /\ clients = {}
    /\ active_sessions = <<>>
    /\ now = 0
    /\ ws_pc = [c \in Conns |-> "closed"]
    /\ ws_open = [c \in Conns |-> FALSE]
    /\ ws_log = [c \in Conns |-> <<>>]
    /\ ws_start = [c \in Conns |-> 0]
    /\ ws_text = [c \in Conns |-> <<>>]
    /\ ws_response = [c \in Conns |-> NoChatResult]
    /\ chat_pc = "idle"
    /\ language = "English"
    /\ use_dual_validation = TRUE
    /\ therapeutic_mode = TRUE
    /\ dual_model_service = TRUE
    /\ llm = "langchain"
    /\ model_name = "gpt-3.5-turbo"
    /\ user_input = <<>>
    /\ crisis_detected = FALSE
    /\ chat_path = <<>>
    /\ chat_result = NoChatResult
    /\ gpc = "idle"
    /\ openai_client = TRUE
    /\ anthropic_client = TRUE
    /\ primary_model = "gpt-4o"
    /\ primary_response = NoResponse
    /\ validation_response = NoValidation
    /\ gate_result = NoResult
    /\ gate_calls = <<>>
    /\ gate_raised = FALSE
    /\ validator_calls = <<>>
    /\ det_which = "none"
    /\ det_text = <<>>
    /\ det_result = FALSE
    /\ gpt4o_access = TRUE
    /\ whisper_client = TRUE
    /\ audio = NoAudio
    /\ stt_pc = "idle"
    /\ stt_calls = <<>>
    /\ transcribed_text = <<>>
    /\ detected_language = <<>>
    /\ speech_result = NoSttResult
    /\ conversation_history = <<>>
    /\ ai_pc = "idle"
    /\ ai_messages = <<>>
    /\ ai_count = 0
    /\ ai_result = NoAiResult
    /\ ai_calls = <<>>
    /\ bot_calls = <<>>
    /\ bot_result = NoBotResult
    /\ bot_user_text = <<>>
    /\ bot_alerts_before = 0
    /\ conversation_count = 0
    /\ crisis_alerts = <<>>
    /\ speech_config = FALSE
    /\ azure_speech_config = FALSE
    /\ voice_op = "none"
    /\ voice_input = [none |-> TRUE, data |-> <<>>]
    /\ voice_result = [raised |-> FALSE, success |-> FALSE, content |-> <<>>, error |-> ""]

SpecBot == InitBot /\ [][NextBot]_vars

\* OmaniVoiceService.__init__ and SpeechService.__init__, with and without an Azure key
InitVoice ==
    /\ speech_config \in BOOLEAN
    /\ azure_speech_config \in BOOLEAN
    /\ clients = {}
    /\ active_sessions = <<>>
    /\ now = 0
    /\ ws_pc = [c \in Conns |-> "closed"]
    /\ ws_open = [c \in Conns |-> FALSE]
    /\ ws_log = [c \in Conns |-> <<>>]
    /\ ws_start = [c \in Conns |-> 0]
    /\ ws_text = [c \in Conns |-> <<>>]
    /\ ws_response = [c \in Conns |-> NoChatResult]
    /\ chat_pc = "idle"
    /\ language = "English"
    /\ use_dual_validation = TRUE
    /\ therapeutic_mode = TRUE
    /\ dual_model_service = TRUE
    /\ llm = "langchain"
    /\ model_name = "gpt-3.5-turbo"
    /\ user_input = <<>>
    /\ crisis_detected = FALSE
    /\ chat_path = <<>>
    /\ chat_result = NoChatResult
    /\ gpc = "idle"
    /\ openai_client = TRUE
    /\ anthropic_client = TRUE
    /\ primary_model = "gpt-4o"
    /\ primary_response = NoResponse
    /\ validation_response = NoValidation
    /\ gate_result = NoResult
    /\ gate_calls = <<>>
    /\ gate_raised = FALSE
    /\ validator_calls = <<>>
    /\ det_which = "none"
    /\ det_text = <<>>
    /\ det_result = FALSE
    /\ gpt4o_access = TRUE
    /\ whisper_client = TRUE
    /\ audio = NoAudio
    /\ stt_pc = "idle"
    /\ stt_calls = <<>>
    /\ transcribed_text = <<>>
    /\ detected_language = <<>>
    /\ speech_result = NoSttResult
    /\ conversation_history = <<>>
    /\ ai_pc = "idle"
    /\ ai_messages = <<>>
    /\ ai_count = 0
    /\ ai_result = NoAiResult
    /\ ai_calls = <<>>
    /\ bot_pc = "idle"
    /\ bot_calls = <<>>
    /\ bot_result = NoBotResult
    /\ bot_user_text = <<>>
    /\ bot_alerts_before = 0
    /\ conversation_count = 0
    /\ crisis_alerts = <<>>
    /\ voice_op = "none"
    /\ voice_input = [none |-> TRUE, data |-> <<>>]
    /\ voice_result = [raised |-> FALSE, success |-> FALSE, content |-> <<>>, error |-> ""]


SpecVoice == InitVoice /\ [][NextVoice]_vars

---------------------------------
\* Claims about the consensus gate (checked under SpecGate)
\* ------------------------------------------------------------------------

GateDone == gpc = "done"
GateFlags == primary_response.safety_flags \cup validation_response.safety_flags

\* C1: whenever the primary or the secondary call raised, the result has status ERROR
\* and its final_response is the fixed fallback apology.
C1_ErrorGivesApology ==
    (GateDone /\ gate_raised) =>
        /\ gate_result.status = "ERROR"
        /\ gate_result.final_response = FallbackApology

\* C2 as stated: whenever the flags extracted from the primary or the secondary response
\* include "crisis", the status is FAILED, whatever the scores.
C2_CrisisAlwaysFailed ==
    (GateDone /\ "crisis" \in GateFlags) => gate_result.status = "FAILED"

\* C2 amended: whenever the flags include "crisis" and neither response carries the
\* "error" flag, the status is FAILED, whatever the scores.
C2_CrisisFailedUnlessError ==
    (GateDone /\ "crisis" \in GateFlags /\ "error" \notin GateFlags) =>
        gate_result.status = "FAILED"

\* a turn with scores 9 and 9 whose validator reply alone mentions a crisis
C2_Witness ==
    /\ GateDone
    /\ primary_response.therapeutic_quality = 90
    /\ validation_response.confidence_score = 90
    /\ "crisis" \notin primary_response.safety_flags
    /\ "crisis" \in validation_response.safety_flags
    /\ gate_result.status = "FAILED"

\* C3: with no "error" and no "crisis" flag and a consensus score below 0.7, the status
\* is CONFLICT exactly when the two scores differ by more than 3 points, else FAILED.
C3_ConflictByScoreGap ==
    (GateDone /\ GateFlags \cap {"error", "crisis"} = {}
              /\ gate_result.consensus_score < 70) =>
        gate_result.status =
            IF Abs(primary_response.therapeutic_quality
                   - validation_response.confidence_score) > 30
            THEN "CONFLICT" ELSE "FAILED"

GradeRank(g) ==
    CASE g = "F" -> 0 [] g = "C" -> 1 [] g = "B" -> 2 [] g = "B+" -> 3
      [] g = "A" -> 4 [] g = "A+" -> 5

GradeOf(p, v) == TherapeuticGrade(ConsensusScore(p, v))

\* C7: the grade is decided by the smaller of the two scores alone (>= 9 A+, >= 8 A,
\* >= 7 B+, >= 6 B, >= 5 C, below F), and raising either score never lowers it.
C7_GradeByMinimum ==
    /\ GateDone =>
         LET p == primary_response.therapeutic_quality
             v == validation_response.confidence_score
             m == IF p < v THEN p ELSE v
         IN  gate_result.therapeutic_grade =
                 CASE m >= 90 -> "A+"
                   [] m >= 80 /\ m < 90 -> "A"
                   [] m >= 70 /\ m < 80 -> "B+"
                   [] m >= 60 /\ m < 70 -> "B"
                   [] m >= 50 /\ m < 60 -> "C"
                   [] m < 50 -> "F"
    /\ GateDone =>
         \A p2 \in Scores, v2 \in Scores :
             (primary_response.therapeutic_quality <= p2
                  /\ validation_response.confidence_score <= v2) =>
                 GradeRank(gate_result.therapeutic_grade) <= GradeRank(GradeOf(p2, v2))

\* scores 5 and 9 graded C
C7_Witness ==
    /\ GateDone
    /\ primary_response.therapeutic_quality = 50
    /\ validation_response.confidence_score = 90
    /\ gate_result.therapeutic_grade = "C"

ImprovedBlock == extract_improved_response(validation_response.content)

\* C8 as stated: the final text is the primary content when PASSED; otherwise, when the
\* validator's reply contains "improved", the extracted block if found and non-empty
\* and the primary content if not; and the primary content when it does not.
C8_FinalIsSelectedText ==
    GateDone =>
        /\ gate_result.status = "PASSED" =>
               gate_result.final_response = primary_response.content
        /\ (gate_result.status # "PASSED"
                /\ HasWord(validation_response.content, "improved")) =>
               gate_result.final_response =
                   IF ImprovedBlock.found /\ ImprovedBlock.text # <<>>
                   THEN ImprovedBlock.text ELSE primary_response.content
        /\ ~HasWord(validation_response.content, "improved") =>
               gate_result.final_response = primary_response.content

\* C8 amended: the final text is that selection with the validation-assessment lines
\* removed and the ends trimmed (_clean_response).
C8_FinalIsCleanedSelection ==
    GateDone =>
        /\ gate_result.status = "PASSED" =>
               gate_result.final_response = clean_response(primary_response.content)
        /\ (gate_result.status # "PASSED"
                /\ HasWord(validation_response.content, "improved")) =>
               gate_result.final_response =
                   clean_response(IF ImprovedBlock.found /\ ImprovedBlock.text # <<>>
                                  THEN ImprovedBlock.text ELSE primary_response.content)
        /\ ~HasWord(validation_response.content, "improved") =>
               gate_result.final_response = clean_response(primary_response.content)

\* a passed turn that keeps the primary text although a rewrite was supplied
C8_Witness ==
    /\ GateDone
    /\ gate_result.status = "PASSED"
    /\ ImprovedBlock.found /\ ImprovedBlock.text # <<>>
    /\ gate_result.final_response = clean_response(primary_response.content)
    /\ gate_result.final_response # clean_response(ImprovedBlock.text)


\* ------------------------------------------------------------------------
\* Claims about the crisis detectors
\* ------------------------------------------------------------------------

\* two characters that are the same letter in either case
SameLetter(a, b) ==
    \/ a = b
    \/ \E i \in 1..26 : {a, b} = {UpperCase[i], LowerCase[i]}

\* the text holds the keyword as a substring, whatever the case of the text
HoldsAnyCase(text, keyword) ==
    \E i \in 1..(Len(text) - Len(keyword) + 1) :
        \A j \in 1..Len(keyword) : SameLetter(text[i + j - 1], keyword[j])

HoldsOneOf(text, list) == \E k \in 1..Len(list) : HoldsAnyCase(text, list[k])

\* the Arabic and English keywords of the detector that ran
OwnArabicEnglish(text) ==
    IF det_which = "chatbot"
    THEN HoldsOneOf(text, crisis_keywords)
    ELSE HoldsOneOf(text, CRISIS_KEYWORDS_AR) \/ HoldsOneOf(text, CRISIS_KEYWORDS_EN)

\* every keyword the detector that ran is configured with
OwnKeywords(text) ==
    OwnArabicEnglish(text)
    \/ (det_which = "ai" /\ HoldsOneOf(text, CRISIS_KEYWORDS_MIXED))

\* C5: each detector answers true for every text that contains one of its
\* Arabic or English keywords as a substring, in any letter case of the text.
C5_KeywordIsDetected ==
    (det_which # "none" /\ OwnArabicEnglish(det_text)) => det_result

\* a detector has answered true for a text that holds a keyword only in capitals
C5_Witness ==
    /\ det_which # "none"
    /\ det_result
    /\ OwnArabicEnglish(det_text)
    /\ ~ \E kw \in AllKeywords : Contains(det_text, kw)

\* C6 as stated: each detector answers false for every text that contains none
\* of the Arabic and none of the English keywords.
C6_NoArabicEnglishIsFalse ==
    (det_which # "none" /\ ~ OwnArabicEnglish(det_text)) => ~ det_result

\* C6: each detector answers false for every text that contains, in any letter
\* case, none of the keywords of any of its lists: Arabic, English and, for
\* the AIService detector, the mixed code-switch phrases.
C6_NoKeywordIsFalse ==
    (det_which # "none" /\ ~ OwnKeywords(det_text)) => ~ det_result

\* a detector has answered false for a text that is a keyword cut short
C6_Witness ==
    /\ det_which # "none"
    /\ ~ det_result
    /\ ~ OwnKeywords(det_text)
    /\ \E kw \in AllKeywords : Len(kw) > 0 /\ Contains(det_text, DropLast(kw)) /\ Len(det_text) >= Len(kw) - 1
    /\ Len(det_text) > 3


\* ------------------------------------------------------------------------
\* Claims about the chatbot
\* ------------------------------------------------------------------------

\* the text opens with one of the two fixed crisis responses, emergency number included
OpensWithCrisisResponse(text) ==
    \E fixed \in {CrisisTextArabic, CrisisTextEnglish} :
        /\ IsPrefix(fixed, text)
        /\ \E i \in 1..Len(fixed) : fixed[i] = Tok("Emergency", 9999)

\* the message of the turn holds a crisis keyword, in any letter case
TurnNamesCrisis == HoldsOneOf(user_input, crisis_keywords)

\* C4: for every message for which detect_crisis is true, get_response_async
\* returns crisis_detected true, a safety_info with emergency_number "9999" and
\* a response that begins with the fixed crisis response, on every path.
C4_CrisisTurnCarriesCrisisResponse ==
    (chat_pc = "done" /\ TurnNamesCrisis) =>
        /\ chat_result.crisis_detected = TRUE
        /\ "emergency_number" \in DOMAIN chat_result.safety_info
        /\ chat_result.safety_info.emergency_number = "9999"
        /\ OpensWithCrisisResponse(chat_result.response)

\* a crisis turn has returned after dual validation raised and the regular call failed
C4_Witness ==
    /\ chat_pc = "done"
    /\ TurnNamesCrisis
    /\ chat_path = <<"dual_raised", "fallback">>
    /\ chat_result.crisis_detected


\* ------------------------------------------------------------------------
\* Claims about the WebSocket relay
\* ------------------------------------------------------------------------

\* the status frame that belongs to a stage
StatusOfStage(stage) ==
    IF stage = "stt" THEN "transcribing"
    ELSE IF stage = "chatbot" THEN "thinking"
    ELSE "synthesizing"

IsFrameOrCall(e) == e.k \in {"frame", "call"}

\* the frames sent and the calls issued for the message in hand, in order
FramesAndCalls(c) == SelectSeq(ws_log[c], IsFrameOrCall)

Has(c, e) == \E i \in 1..Len(ws_log[c]) : ws_log[c][i] = e

\* a voice_input whose three stages succeeded and whose frames all went out
VoiceTurnSucceeded(c) ==
    /\ Len(ws_log[c]) > 0
    /\ ws_log[c][1] = Recv("voice_input", "audio")
    /\ Has(c, Ret("stt", "ok"))
    /\ Has(c, Ret("chatbot", "ok"))
    /\ Has(c, Ret("tts", "ok"))
    /\ ~Has(c, Raised("ConnectionClosed"))

\* C9: for a voice_input that is processed successfully the server sends
\* 'transcribing', then calls speech-to-text, sends the transcription, sends
\* 'thinking', calls the chatbot, sends 'synthesizing', calls text-to-speech and
\* last sends exactly one voice_response; and for no message is a stage's call
\* issued before that stage's status frame has been sent.
C9_VoiceTurnOrder ==
    \A c \in Conns :
        /\ \A i \in 1..Len(ws_log[c]) :
              ws_log[c][i].k = "call" =>
                  \E j \in 1..(i - 1) :
                      ws_log[c][j] = Frame("processing_status", StatusOfStage(ws_log[c][i].t))
        /\ VoiceTurnSucceeded(c) =>
              FramesAndCalls(c) =
                  << Frame("processing_status", "transcribing"), Call("stt"),
                     Frame("transcription", ""),
                     Frame("processing_status", "thinking"), Call("chatbot"),
                     Frame("processing_status", "synthesizing"), Call("tts"),
                     Frame("voice_response", "") >>

\* a voice turn has gone through all three stages and its voice_response is out
C9_Witness ==
    \E c \in Conns :
        /\ VoiceTurnSucceeded(c)
        /\ ws_pc[c] = "waiting"
        /\ ws_log[c][Len(ws_log[c])] = Frame("voice_response", "")

\* a stage of the turn in hand has failed: a failure result, a blank transcription or an exception
StageFailedAt(c, i) ==
    /\ ws_log[c][i].k = "ret"
    /\ ws_log[c][i].d # "ok"

\* C10 as stated: a failure of any stage makes the server send an error frame,
\* invoke no later stage and no retry, and wait for the next message on the
\* same connection.
C10_FailureGivesErrorFrame ==
    \A c \in Conns : \A i \in 1..Len(ws_log[c]) :
        StageFailedAt(c, i) =>
            /\ Len(ws_log[c]) = i + 1
            /\ ws_log[c][i + 1].k = "frame"
            /\ ws_log[c][i + 1].t = "error"
            /\ ws_pc[c] = "waiting"

\* C10: after a failure of a stage nothing more is called for the turn; when
\* the client is still connected the server sends one frame and waits for the
\* next message on the same connection: a text_response with the chatbot's text
\* when text-to-speech returned a failure result, an error frame for every other
\* failure; when the client is gone the send raises and the handler ends.
C10_FailureEndsTurn ==
    \A c \in Conns : \A i \in 1..Len(ws_log[c]) :
        StageFailedAt(c, i) =>
            /\ Len(ws_log[c]) = i + 1
            /\ \/ /\ ws_log[c][i + 1] = Raised("ConnectionClosed")
                  /\ ~ws_open[c]
                  /\ ws_pc[c] = "closed"
                  /\ c \notin clients
               \/ /\ ws_log[c][i] = Ret("tts", "fail")
                  /\ ws_log[c][i + 1] = Frame("text_response", "fallback_mode")
                  /\ ws_pc[c] = "waiting"
                  /\ c \in clients
               \/ /\ ws_log[c][i] # Ret("tts", "fail")
                  /\ ws_log[c][i + 1].k = "frame"
                  /\ ws_log[c][i + 1].t = "error"
                  /\ ws_pc[c] = "waiting"
                  /\ c \in clients

\* text-to-speech has returned a failure result and the text went out instead,
\* while the other connection is in the middle of a turn
C10_Witness ==
    \E c \in Conns :
        /\ Has(c, Ret("tts", "fail"))
        /\ ws_log[c][Len(ws_log[c])] = Frame("text_response", "fallback_mode")
        /\ ws_pc[c] = "waiting"
        /\ \E d \in Conns \ {c} : ws_pc[d] \in {"stt", "chat", "tts"}

\* a frame that ends the handling of a message
IsTerminal(e) ==
    /\ e.k = "frame"
    /\ e.t \in {"voice_response", "text_response", "error", "pong", "config_updated"}

\* the terminal frames sent for the message in hand
TerminalFrames(c) == SelectSeq(ws_log[c], IsTerminal)

\* the terminal frame types that may answer a received frame
AnswersTo(type) ==
    IF type = "voice_input" THEN {"voice_response", "text_response", "error"}
    ELSE IF type = "text_input" THEN {"text_response", "error"}
    ELSE IF type = "ping" THEN {"pong"}
    ELSE IF type = "config_update" THEN {"config_updated"}
    ELSE {"error"}

\* a message has been received and no send has failed since
SendsSucceeded(c) ==
    /\ Len(ws_log[c]) > 0
    /\ ws_log[c][1].k = "recv"
    /\ ~Has(c, Raised("ConnectionClosed"))

\* the answer to the message in hand is out, or a send for it has failed
Answered(c) ==
    \/ Len(ws_log[c]) = 0
    \/ Has(c, Raised("ConnectionClosed"))
    \/ Len(TerminalFrames(c)) = 1

\* C11: as long as sends succeed, a received frame has no terminal frame while
\* its handling is under way and exactly one when the handler waits for the next
\* message; that frame is the last one sent and its type is one the request
\* allows (voice_input: voice_response, text_response or error; text_input:
\* text_response or error; ping: pong; config_update: config_updated; anything
\* else: error); and every received frame is eventually answered or its send fails.
C11_ExactlyOneTerminalFrame ==
    /\ [](\A c \in Conns :
            SendsSucceeded(c) =>
                /\ Len(TerminalFrames(c)) <= 1
                /\ (ws_pc[c] = "waiting") <=> (Len(TerminalFrames(c)) = 1)
                /\ Len(TerminalFrames(c)) = 1 =>
                      /\ ws_log[c][Len(ws_log[c])] = TerminalFrames(c)[1]
                      /\ TerminalFrames(c)[1].t \in AnswersTo(ws_log[c][1].t))
    /\ \A c \in Conns : (ws_pc[c] \in {"stt", "chat", "tts", "tchat"}) ~> Answered(c)

\* a voice_input was answered by a text_response, every send having succeeded
C11_Witness ==
    /\ SendsSucceeded("c1")
    /\ ws_log["c1"][1] = Recv("voice_input", "audio")
    /\ ws_log["c1"][Len(ws_log["c1"])] = Frame("text_response", "fallback_mode")
    /\ ws_pc["c1"] = "waiting"

\* the handling of a new message starts on the connection in this step
StartsMessage(c) ==
    /\ Len(ws_log'[c]) > 0
    /\ ws_log'[c][1].k = "recv"
    /\ \/ ~IsPrefix(ws_log[c], ws_log'[c])
       \/ /\ c \in DOMAIN active_sessions'
          /\ active_sessions'[c].message_count # active_sessions[c].message_count

\* C12: on one connection the handling of a message starts only when the handler
\* waits, i.e. after every frame for the message before has been sent (its
\* terminal frame is the last entry of its log); connections are handled
\* independently, so two of them can be in the middle of a turn at once.
C12_OneMessageAtATime ==
    [][\A c \in Conns :
          StartsMessage(c) =>
              /\ ws_pc[c] = "waiting"
              /\ ws_log[c][Len(ws_log[c])].k = "frame"
              /\ \/ ws_log[c] = <<Frame("connection_established", "")>>
                 \/ IsTerminal(ws_log[c][Len(ws_log[c])])]_vars

\* both connections are in the middle of a turn, the second message of one of
\* them being handled
C12_Witness ==
    \E c \in Conns : \E d \in Conns \ {c} :
        /\ ws_pc[c] \in {"stt", "chat", "tts", "tchat"}
        /\ ws_pc[d] \in {"stt", "chat", "tts", "tchat"}
        /\ active_sessions[c].message_count = 2

\* the chatbot call of the connection is running in its worker thread
InChatbotCall(c) == ws_pc[c] \in {"chat", "tchat"}

\* C13 as stated: the validator's primary_model is not written by the turn of
\* one connection while the chatbot call of another connection is running and
\* can read or write it.
C13_NoWriteDuringAnotherTurn ==
    [][\A c \in Conns : \A d \in Conns \ {c} :
          (InChatbotCall(c) /\ ~InChatbotCall(c)' /\ primary_model' # primary_model)
              => ~InChatbotCall(d)]_vars

\* the payload of a received frame is missing or empty: a text_input without
\* text, with an empty text or with a text of whitespace only, a voice_input
\* without audio_data or with an empty one
InputError(e) ==
    \/ e.t = "text_input" /\ e.d \in {"missing", "empty", "blank"}
    \/ e.t = "voice_input" /\ e.d \in {"missing", "empty"}

\* the reason the error frame gives for it
InputErrorReason(e) ==
    IF e.t = "text_input" THEN "Empty text input" ELSE "No audio data provided"

\* C14: a text_input whose text is missing, empty or only whitespace, and a
\* voice_input whose audio_data is missing or empty, are answered with an error
\* frame that names the reason; no status frame is sent and no speech or
\* chatbot call is made for the message, the handler waits for the next
\* message, and the session's total_latency stays as it was.
C14_InputErrorIsRejected ==
    [][\A c \in Conns :
          (StartsMessage(c) /\ InputError(ws_log'[c][1])) =>
              /\ ws_log'[c] = <<ws_log'[c][1], ErrorFrame(InputErrorReason(ws_log'[c][1]))>>
              /\ ws_pc'[c] = "waiting"
              /\ active_sessions'[c].total_latency = active_sessions[c].total_latency]_vars

\* a text of whitespace only has been rejected in a session whose earlier turn
\* took time
C14_Witness ==
    /\ ws_log["c1"] = <<Recv("text_input", "blank"), ErrorFrame("Empty text input")>>
    /\ ws_pc["c1"] = "waiting"
    /\ active_sessions["c1"].total_latency > 0

\* ------------------------------------------------------------------------
\* Claims about SpeechService.speech_to_text (checked under SpecSpeech)
\* ------------------------------------------------------------------------

\* the audio is shorter than 0.5 seconds or below the volume floor
ShortOrQuiet == audio.duration < MinDuration \/ audio.volume < VolumeFloor

\* no request has gone to the vendor and the result, once there, is a failure
RejectedBeforeVendor ==
    /\ stt_calls = <<>>
    /\ stt_pc = "done" => ~speech_result.success
    /\ stt_pc # "idle" => stt_pc = "done"

AttemptOrder == <<"auto", "ar", "en">>

\* C16 as stated: the attempts are made in the order auto-detect, Arabic,
\* English, at most three requests per input, the next one only while no text
\* has been accepted; success is reported only with a text that is non-empty
\* and not a noise token, and a failure after requests only when all three
\* attempts were made.
C16_AttemptsUntilAcceptedText ==
    /\ Len(stt_calls) <= 3
    /\ \A i \in 1..Len(stt_calls) : stt_calls[i].language = AttemptOrder[i]
    /\ (stt_pc \in {"ar", "en"}) => transcribed_text = <<>>
    /\ (stt_pc = "done" /\ speech_result.success) =>
          /\ speech_result.text # <<>>
          /\ Lower(StripChars(speech_result.text)) \notin noise_tokens
    /\ (stt_pc = "done" /\ ~speech_result.success /\ stt_calls # <<>>) =>
          Len(stt_calls) = 3

\* ------------------------------------------------------------------------
\* Claims about AIService (checked under SpecAi)
\* ------------------------------------------------------------------------

\* the entries are whole exchanges, one after the other, up to the latest one
LatestExchangesInOrder(history) ==
    /\ history # <<>> => history[Len(history)].role = "assistant"
    /\ history # <<>> => history[Len(history)].content[1] = ai_count
    /\ \A i \in 1..(Len(history) - 1) :
          IF history[i].role = "user"
          THEN /\ history[i + 1].role = "assistant"
               /\ history[i + 1].content[1] = history[i].content[1]
          ELSE /\ history[i + 1].role = "user"
               /\ history[i + 1].content[1] = history[i].content[1] + 1

\* C17: after any sequence of get_response and clear_conversation calls the
\* stored history holds at most 20 entries, the most recent ones in order, and
\* a request to the primary model carries at most the last 10 entries of the
\* history before the current user message.
C17_HistoryAndRequestAreBounded ==
    /\ Len(conversation_history) <= 20
    /\ LatestExchangesInOrder(conversation_history)
    /\ Len(ai_messages) <= 10
    /\ ai_pc # "idle" =>
          /\ Len(ai_messages) <= Len(conversation_history)
          /\ ai_messages = SubSeq(conversation_history,
                                  Len(conversation_history) - Len(ai_messages) + 1,
                                  Len(conversation_history))
          /\ Len(ai_messages) < 10 => ai_messages = conversation_history

\* the eleventh exchange has pushed the first one out of a full history, and a
\* request carrying ten entries is under way
C17_Witness ==
    /\ Len(conversation_history) = 20
    /\ conversation_history[1].content[1] > 1
    /\ conversation_history[1].content[1] = ai_count - 9
    /\ ai_pc = "gpt"
    /\ Len(ai_messages) = 10

\* ------------------------------------------------------------------------
\* More claims about the consensus gate (checked under SpecGate)
\* ------------------------------------------------------------------------

IsPrimaryCall(call) == call.model # "claude"

\* the calls the primary request of the turn has made, in order
PrimaryCalls == SelectSeq(gate_calls, IsPrimaryCall)

\* the call failed with 'model_not_found' or 'does not have access'
FailedForAccess(call) ==
    /\ call.kind = "raise"
    /\ call.exception \in {ModelNotFound, NoAccess}

\* C18: one primary request calls the vendor at most twice; the second call
\* goes to the fallback model gpt-4 and is made exactly when the first call
\* failed with a model-access error; after any other first-call error, and
\* after the fallback call whatever its outcome, the request makes no further
\* call.
C18_AtMostOneFallbackCall ==
    /\ Len(PrimaryCalls) <= 2
    /\ Len(PrimaryCalls) = 2 =>
          /\ PrimaryCalls[2].model = "gpt-4"
          /\ FailedForAccess(PrimaryCalls[1])
    /\ gpc = "fallback" <=> (Len(PrimaryCalls) = 1 /\ FailedForAccess(PrimaryCalls[1]))
    /\ gpc = "primary" => PrimaryCalls = <<>>

\* the first call failed for want of access, the fallback call timed out, and
\* the request went on to the validator without a third call
C18_Witness ==
    /\ Len(PrimaryCalls) = 2
    /\ PrimaryCalls[1].exception = NoAccess
    /\ PrimaryCalls[2] = [model |-> "gpt-4", kind |-> "raise", exception |-> Timeout]
    /\ gpc = "done"

\* ------------------------------------------------------------------------
\* Claims about the code-switching detectors (checked under SpecCodeswitching)
\* ------------------------------------------------------------------------

\* the positions of a text that hold a character of the Arabic block U+0600..U+06FF
ArabicPositions(text) == {i \in 1..Len(text) : Ord(text[i]) \in 1536..1791}

\* the positions of a text that hold an ASCII letter
AsciiLetterPositions(text) ==
    {i \in 1..Len(text) : Ord(text[i]) \in (65..90) \cup (97..122)}

\* C19: both code-switching detectors return true for every text with at least
\* two characters of the Arabic block together with at least one ASCII letter,
\* and false for the empty text.
C19_MixedScriptsAreDetected ==
    det_which \in {"cs_ai", "cs_speech"} =>
        /\ (Cardinality(ArabicPositions(det_text)) >= 2 /\ AsciiLetterPositions(det_text) # {})
              => det_result
        /\ det_text = <<>> => ~det_result

\* the speech detector has found code-switching in a text of the first and the
\* last character of the Arabic block around a capital letter
C19_Witness ==
    /\ det_which = "cs_speech"
    /\ det_text = <<"U0600", "Z", "U06FF">>
    /\ det_result

\* ------------------------------------------------------------------------
\* Claims about OmaniMentalHealthBot.process_voice_input (checked under SpecBot)
\* ------------------------------------------------------------------------

\* the stages of a turn, in the order the claim gives
StageOrder == <<"stt", "ai", "tts">>

\* C20: process_voice_input invokes speech-to-text, AI and text-to-speech in
\* that order and always returns a dictionary; a stage is invoked only after
\* every stage before it has succeeded; when a stage fails the turn ends with
\* success = false, an error string and `stage` naming the stage that failed,
\* or 'general' when the stage raised, and no later stage is invoked.
C20_StagesInOrderAndFailureNamed ==
    /\ Len(bot_calls) <= 3
    /\ \A i \in 1..Len(bot_calls) :
          /\ bot_calls[i].stage = StageOrder[i]
          /\ i < Len(bot_calls) => bot_calls[i].outcome = "ok"
    /\ bot_pc \in {"idle", "stt", "ai", "tts", "done"}
    /\ bot_pc \in {"stt", "ai", "tts"} =>
          /\ bot_calls[Len(bot_calls)] = [stage |-> bot_pc, outcome |-> "pending"]
          /\ ~bot_result.success
    /\ bot_pc = "done" =>
          LET last == bot_calls[Len(bot_calls)]
          IN  IF last.outcome = "ok"
              THEN bot_result.success /\ Len(bot_calls) = 3
              ELSE /\ ~bot_result.success
                   /\ bot_result.error # ""
                   /\ last.outcome # "pending"
                   /\ bot_result.stage = IF last.outcome = "raise" THEN "general"
                                         ELSE last.stage

\* the AI stage has returned a failure in the second turn: the result names it
\* and text-to-speech was not invoked
C20_Witness ==
    /\ bot_pc = "done"
    /\ conversation_count = 1
    /\ bot_calls = <<[stage |-> "stt", outcome |-> "ok"], [stage |-> "ai", outcome |-> "fail"]>>
    /\ bot_result.stage = "ai"
    /\ ~bot_result.success

\* ------------------------------------------------------------------------
\* Claims about the calls of validate_response (checked under SpecGate)
\* ------------------------------------------------------------------------

\* the requests of the turn sent to the validator's vendor
ValidatorRequests == {i \in 1..Len(gate_calls) : gate_calls[i].model = "claude"}

\* the primary call ended in its handler: no client, or its last request did not give a reply
PrimaryFailed ==
    LET P == {i \in 1..Len(gate_calls) : gate_calls[i].model # "claude"}
    IN  P = {} \/ gate_calls[CHOOSE i \in P : \A j \in P : j <= i].kind # "ok"

\* "Primary model error: ..."
IsPrimaryErrorText(content) == content # <<>> /\ content[1] = Tok("PERR", 0)

\* C23: in each turn the validator call is issued exactly once and only after the primary
\* call has returned; it is issued also when the primary call failed, and is then asked
\* to validate the primary's error text.
C23_ValidatorCalledOnceAfterPrimary ==
    /\ gpc \in {"idle", "primary", "fallback", "validation"} =>
           validator_calls = <<>> /\ ValidatorRequests = {}
    /\ gpc = "validation" => primary_response # NoResponse
    /\ gpc = "done" =>
           /\ Len(validator_calls) = 1
           /\ primary_response # NoResponse
           /\ validator_calls[1] = primary_response.content
           /\ PrimaryFailed => IsPrimaryErrorText(validator_calls[1])
           /\ ~PrimaryFailed => ~IsPrimaryErrorText(validator_calls[1])
           /\ ValidatorRequests \subseteq {Len(gate_calls)}

\* a turn whose primary request raised and whose validator answered about the error text
C23_Witness ==
    /\ gpc = "done"
    /\ PrimaryFailed
    /\ Len(gate_calls) = 2
    /\ gate_calls[1].kind = "raise"
    /\ gate_calls[2].model = "claude" /\ gate_calls[2].kind = "ok"
    /\ Len(validator_calls) = 1
    /\ IsPrimaryErrorText(validator_calls[1])

\* the request a step has just sent
SentNow == gate_calls'[Len(gate_calls')]

\* a step of the fallback request
FallbackStep == gpc = "fallback" /\ Len(gate_calls') = Len(gate_calls) + 1

\* C24: primary_model changes only from "gpt-4o" to "gpt-4", and only in a request whose
\* fallback call succeeded; a failed fallback call leaves it unchanged, it never returns
\* to "gpt-4o", and after the change every later primary request sends its first call to
\* "gpt-4".
C24_PrimaryModelOnlyFallsBack ==
    [][ /\ primary_model' # primary_model =>
              /\ primary_model = "gpt-4o" /\ primary_model' = "gpt-4"
              /\ FallbackStep
              /\ SentNow.model = "gpt-4" /\ SentNow.kind # "raise"
        /\ (FallbackStep /\ SentNow.kind = "raise") => primary_model' = primary_model
        /\ primary_model = "gpt-4" => primary_model' = "gpt-4"
        /\ (primary_model = "gpt-4" /\ gpc = "primary" /\ gate_calls' # gate_calls) =>
              Len(gate_calls') = 1 /\ SentNow.model = "gpt-4"
      ]_vars

\* a request made after the change, whose first call went to "gpt-4"
C24_Witness ==
    /\ primary_model = "gpt-4"
    /\ gate_calls # <<>>
    /\ gate_calls[1].model = "gpt-4"

\* a reply of the turn holds the word "error"
ReplySpeaksOfError ==
    \/ HasWord(primary_response.content, "error")
    \/ HasWord(validation_response.content, "error")

C26_ConsensusInUnitRange ==
    GateDone => (0 <= gate_result.consensus_score /\ gate_result.consensus_score <= 100)

\* ------------------------------------------------------------------------
\* Claims about the result of get_response_async (checked under SpecChat)
\* ------------------------------------------------------------------------

\* C22: for every input and every combination of available, unavailable or failing AI
\* services, get_response_async returns a result with a non-empty "response" text and a
\* boolean "crisis_detected".
C22_ResponseNeverEmpty ==
    chat_pc = "done" =>
        /\ chat_result.response # <<>>
        /\ chat_result.response # PyNone
        /\ chat_result.crisis_detected \in BOOLEAN

\* ------------------------------------------------------------------------
\* Claims about the sessions of the relay (checked under SpecWS)
\* ------------------------------------------------------------------------

\* C27: wherever the event loop can switch tasks, a websocket is in clients exactly when
\* it has an entry in active_sessions; and once the handler of a connection has ended,
\* for whatever reason, the websocket is in neither.
C27_ClientsAreTheSessions ==
    /\ clients = DOMAIN active_sessions
    /\ \A c \in Conns : ws_pc[c] = "closed" => (c \notin clients /\ c \notin DOMAIN active_sessions)
    /\ \A c \in Conns : ws_pc[c] # "closed" => (c \in clients /\ c \in DOMAIN active_sessions)

\* the handler of one connection ended in ConnectionClosed while another client stays registered
C27_Witness ==
    /\ ws_pc["c1"] = "closed"
    /\ Has("c1", Raised("ConnectionClosed"))
    /\ "c1" \notin clients
    /\ clients = {"c2"}
    /\ DOMAIN active_sessions = {"c2"}

\* C28: any two sessions active at the same time have different session_id values, for
\* every interleaving of connects and disconnects, several within one second included.
C28_SessionIdsDistinct ==
    \A c, d \in DOMAIN active_sessions :
        c # d => active_sessions[c].session_id # active_sessions[d].session_id

\* ------------------------------------------------------------------------
\* Claims about the history of AIService (checked under SpecAi)
\* ------------------------------------------------------------------------

\* user, assistant, user, assistant, ... from the first entry on
Alternates(history) ==
    /\ Len(history) % 2 = 0
    /\ \A i \in 1..Len(history) :
           history[i].role = IF i % 2 = 1 THEN "user" ELSE "assistant"

\* the history after a recorded turn: what it was, from some entry on, then the user
\* entry and the assistant entry of the turn
EndsWithExchange(before, after, n, who) ==
    /\ Len(after) >= 2
    /\ after[Len(after) - 1] = Entry("user", n, "user")
    /\ after[Len(after)] = Entry("assistant", n, who)
    /\ \E k \in 0..Len(before) :
           SubSeq(after, 1, Len(after) - 2) = SubSeq(before, k + 1, Len(before))

\* C29: get_response changes the history only on a successful turn, where it appends the
\* user entry followed by the assistant entry; a turn whose primary call fails returns
\* success = false with the fallback text and leaves the history unchanged; a failure of
\* the validation step does not fail the turn: the primary text is used and recorded.
\* The history always has even length and alternates user, assistant.
C29_HistoryChangesOnlyOnSuccess ==
    /\ [] Alternates(conversation_history)
    /\ [][ /\ (ai_pc # "idle" /\ conversation_history' # conversation_history) =>
                 /\ ai_pc = "claude" /\ ai_pc' = "idle"
                 /\ ai_result'.success
                 /\ EndsWithExchange(conversation_history, conversation_history',
                                     ai_result'.response[1], ai_result'.response[2])
           /\ (ai_pc = "gpt" /\ ai_pc' = "idle") =>
                 /\ ~ai_result'.success
                 /\ ai_result'.response[2] = "fallback"
                 /\ conversation_history' = conversation_history
           /\ (ai_pc = "claude" /\ ai_pc' = "idle") =>
                 /\ ai_result'.success
                 /\ conversation_history' # conversation_history
                 /\ ai_calls'[Len(ai_calls')].outcome \in {"raise", "no_client"} =>
                        ai_result'.response[2] = "gpt"
         ]_vars

\* a second turn whose validation request raised: it succeeded with the primary text,
\* which is the last entry of the history
C29_Witness ==
    /\ ai_pc = "idle"
    /\ ai_result.success
    /\ Len(ai_calls) = 2
    /\ ai_calls[2].outcome = "raise"
    /\ Len(conversation_history) >= 4
    /\ conversation_history[Len(conversation_history)] = Entry("assistant", ai_count, "gpt")
    /\ ai_result.response = <<ai_count, "gpt">>

\* ------------------------------------------------------------------------
\* Claims about the crisis turns of process_voice_input (checked under SpecBot)
\* ------------------------------------------------------------------------

\* a turn has ended, no stage having raised, whose transcribed text triggers crisis
\* detection
CrisisTurnEnded ==
    /\ bot_pc = "done"
    /\ bot_user_text # <<>>
    /\ ai_detect_crisis(bot_user_text)
    /\ \A i \in 1..Len(bot_calls) : bot_calls[i].outcome # "raise"

\* the text ends with the emergency contacts
EndsWithCrisisSupport(text) ==
    /\ Len(text) >= Len(CrisisSupport)
    /\ SubSeq(text, Len(text) - Len(CrisisSupport) + 1, Len(text)) = CrisisSupport

\* C30: every turn whose transcribed text triggers crisis detection appends one crisis
\* event to crisis_alerts and yields a result whose response text ends with the emergency
\* contact block, the turns in which the AI call fails included.
C30_CrisisTurnIsRecordedAndExtended ==
    CrisisTurnEnded =>
        /\ Len(crisis_alerts) = bot_alerts_before + 1
        /\ crisis_alerts[Len(crisis_alerts)].user_text = bot_user_text
        /\ EndsWithCrisisSupport(bot_result.response_text)

\* ------------------------------------------------------------------------
\* Claims about the speech operations (checked under SpecVoice)

VoiceOperations ==
    {"OmaniVoiceService.speech_to_text", "OmaniVoiceService.text_to_speech", "SpeechService.text_to_speech"}

\* C21: every speech-to-text and text-to-speech operation returns either a
\* success with non-empty content (text or audio_data) or a failure with an
\* error string; it never raises and never reports success with empty content.
C21_SpeechResultIsSuccessOrFailure ==
    voice_op \in VoiceOperations =>
        /\ ~voice_result.raised
        /\ voice_result.success => voice_result.content # <<>>
        /\ ~voice_result.success => voice_result.error # ""

====
